---- MODULE Spec2Model ----
(***************************************************************************)
(* Model of the Drools rule parser (drools_graph_rag/parser), the graph    *)
(* populator (drools_graph_rag/graph/builder.py) and the graph query       *)
(* engine (drools_graph_rag/query_engine/query_engine.py).                 *)
(*                                                                         *)
(* Text is a sequence of one-character strings.  The regular expressions   *)
(* of DroolsParser.__init__ are written as sequences of items and run by   *)
(* a backtracking matcher with Python's greedy, leftmost semantics.        *)
(***************************************************************************)
EXTENDS Integers, Sequences, FiniteSets, TLC

\* ------------------------------------------------------------------ text

Max(a, b) == IF a >= b THEN a ELSE b
Min(a, b) == IF a <= b THEN a ELSE b

\* s[a..b] as a sequence (empty when b < a)
Slice(s, a, b) == IF b < a THEN <<>> ELSE SubSeq(s, a, b)

LowerChars == {"a","b","c","d","e","f","g","h","i","j","k","l","m",
               "n","o","p","q","r","s","t","u","v","w","x","y","z"}
UpperChars == {"A","B","C","D","E","F","G","H","I","J","K","L","M",
               "N","O","P","Q","R","S","T","U","V","W","X","Y","Z"}
DigitChars == {"0","1","2","3","4","5","6","7","8","9"}
\* \w of Python's re on str
WordChars == LowerChars \cup UpperChars \cup DigitChars \cup {"_"}
\* \s of Python's re on str, and the characters str.strip() removes
SpaceChars == {" ", "\t", "\n", "\r", "\f"}

\* a character class: the characters of cs, or (neg) every other character
Cls(cs) == [neg |-> FALSE, cs |-> cs]
NotCls(cs) == [neg |-> TRUE, cs |-> cs]
InClass(c, cls) == IF cls.neg THEN c \notin cls.cs ELSE c \in cls.cs

\* regex items: a quantified class {lo,hi} (greedy), a literal, an alternation
Unbounded == 1000000
Rep(cls, lo, hi) == [kind |-> "cls", cls |-> cls, lo |-> lo, hi |-> hi]
Plus(cls) == Rep(cls, 1, Unbounded)
Star(cls) == Rep(cls, 0, Unbounded)
Opt(cls) == Rep(cls, 0, 1)
One(cls) == Rep(cls, 1, 1)
Lit(str) == [kind |-> "lit", str |-> str]
Alt(items) == [kind |-> "alt", alts |-> items]

\* str occurs in s at position i
LitAt(s, i, str) ==
  /\ i + Len(str) - 1 <= Len(s)
  /\ \A k \in 1..Len(str) : s[i + k - 1] = str[k]

\* the least element of a non-empty set of integers
Least(S) == CHOOSE x \in S : \A y \in S : x <= y

\* number of consecutive characters of cls in s from position i, at most hi
RunLen(s, i, cls, hi) ==
  LET stops == {j \in i..Len(s) : ~InClass(s[j], cls)}
      run == IF stops = {} THEN Max(Len(s) - i + 1, 0) ELSE Least(stops) - i
  IN Min(run, hi)

(* MatchAt(pat, k, s, i): items k.. of pat matched against s from position *)
(* i.  The result is <<>> when there is no match, else the boundaries      *)
(* <<b_k, ..., b_n, e>>: item j matched s[b_j .. b_(j+1) - 1].  A greedy   *)
(* item takes the longest run first and gives characters back one at a     *)
(* time; an alternation tries its branches left to right.                  *)
RECURSIVE MatchAt(_, _, _, _)
RECURSIVE TryCounts(_, _, _, _, _, _)
RECURSIVE TryAlts(_, _, _, _, _)
MatchItem(it, pat, k, s, i) ==
  IF it.kind = "lit"
  THEN IF LitAt(s, i, it.str)
       THEN LET r == MatchAt(pat, k + 1, s, i + Len(it.str))
            IN IF r = <<>> THEN <<>> ELSE <<i>> \o r
       ELSE <<>>
  ELSE TryCounts(pat, k, s, i, RunLen(s, i, it.cls, it.hi), it.lo)
TryCounts(pat, k, s, i, c, lo) ==
  IF c < lo THEN <<>>
  ELSE LET r == MatchAt(pat, k + 1, s, i + c)
       IN IF r # <<>> THEN <<i>> \o r ELSE TryCounts(pat, k, s, i, c - 1, lo)
TryAlts(pat, k, s, i, a) ==
  IF a > Len(pat[k].alts) THEN <<>>
  ELSE LET r == MatchItem(pat[k].alts[a], pat, k, s, i)
       IN IF r # <<>> THEN r ELSE TryAlts(pat, k, s, i, a + 1)
MatchAt(pat, k, s, i) ==
  IF k > Len(pat) THEN <<i>>
  ELSE IF pat[k].kind = "alt" THEN TryAlts(pat, k, s, i, 1)
  ELSE MatchItem(pat[k], pat, k, s, i)

\* pattern.match(s): anchored at the start of s
ReMatch(pat, s) == MatchAt(pat, 1, s, 1)

\* pattern.search(s) from position from: the leftmost match
SearchFrom(pat, s, from) ==
  LET hits == {i \in from..(Len(s) + 1) : MatchAt(pat, 1, s, i) # <<>>}
  IN IF hits = {} THEN <<>> ELSE MatchAt(pat, 1, s, Least(hits))
ReSearch(pat, s) == SearchFrom(pat, s, 1)

\* pattern.finditer(s): the successive non-overlapping matches
RECURSIVE FindIterFrom(_, _, _)
FindIterFrom(pat, s, from) ==
  LET r == SearchFrom(pat, s, from)
  IN IF r = <<>> THEN <<>>
     ELSE <<r>> \o FindIterFrom(pat, s, Max(r[Len(r)], r[1] + 1))
FindIter(pat, s) == FindIterFrom(pat, s, 1)

\* the text of item k of a match m (a capture group of one item)
Group(s, m, k) == Slice(s, m[k], m[k + 1] - 1)
MatchStart(m) == m[1]
MatchEnd(m) == m[Len(m)]

\* str.strip()
RECURSIVE LStrip(_)
LStrip(s) == IF s # <<>> /\ s[1] \in SpaceChars THEN LStrip(Tail(s)) ELSE s
RECURSIVE RStrip(_)
RStrip(s) ==
  IF s # <<>> /\ s[Len(s)] \in SpaceChars THEN RStrip(SubSeq(s, 1, Len(s) - 1)) ELSE s
Strip(s) == LStrip(RStrip(s))

\* str.split(sep) for a one-character separator
RECURSIVE SplitChar(_, _)
SplitChar(s, sep) ==
  IF \A i \in 1..Len(s) : s[i] # sep THEN <<s>>
  ELSE LET i == CHOOSE j \in 1..Len(s) : s[j] = sep /\ \A h \in 1..(j - 1) : s[h] # sep
       IN <<Slice(s, 1, i - 1)>> \o SplitChar(Slice(s, i + 1, Len(s)), sep)

\* sep.join(parts)
RECURSIVE Join(_, _)
Join(parts, sep) ==
  IF parts = <<>> THEN <<>>
  ELSE IF Len(parts) = 1 THEN parts[1]
  ELSE parts[1] \o sep \o Join(Tail(parts), sep)

StartsWith(s, p) == LitAt(s, 1, p)
EndsWith(s, p) == Len(p) <= Len(s) /\ LitAt(s, Len(s) - Len(p) + 1, p)

\* ------------------------------------------------------------------ patterns
\* (DroolsParser.__init__; a capture group is one item, or a run of items)

S_package == <<"p","a","c","k","a","g","e">>
S_import == <<"i","m","p","o","r","t">>
S_global == <<"g","l","o","b","a","l">>
S_rule == <<"r","u","l","e">>
S_extends == <<"e","x","t","e","n","d","s">>
S_salience == <<"s","a","l","i","e","n","c","e">>
S_when == <<"w","h","e","n">>
S_then == <<"t","h","e","n">>
S_end == <<"e","n","d">>
S_query == <<"q","u","e","r","y">>
S_function == <<"f","u","n","c","t","i","o","n">>
S_declare == <<"d","e","c","l","a","r","e">>
S_matches == <<"m","a","t","c","h","e","s">>
S_eqeq == <<"=","=">>
S_neq == <<"!","=">>
S_le == <<"<","=">>
S_ge == <<">","=">>
S_comment == <<"/","/">>
QUOTE == "\""
APOS == "'"
NL == "\n"

Spaces == Cls(SpaceChars)

\* package\s+([^;]+);?
package_pattern == <<Lit(S_package), Plus(Spaces), Plus(NotCls({";"})), Opt(Cls({";"}))>>
\* import\s+([^;]+);?
import_pattern == <<Lit(S_import), Plus(Spaces), Plus(NotCls({";"})), Opt(Cls({";"}))>>
\* global\s+([^\s]+)\s+([^;]+);?
global_pattern ==
  <<Lit(S_global), Plus(Spaces), Plus(NotCls(SpaceChars)), Plus(Spaces), Plus(NotCls({";"})),
    Opt(Cls({";"}))>>
\* rule\s+"([^"]+)"            group 1 is item 4
rule_pattern == <<Lit(S_rule), Plus(Spaces), Lit(<<QUOTE>>), Plus(NotCls({QUOTE})), Lit(<<QUOTE>>)>>
\* extends\s+"([^"]+)"         group 1 is item 4
extends_pattern == <<Lit(S_extends), Plus(Spaces), Lit(<<QUOTE>>), Plus(NotCls({QUOTE})), Lit(<<QUOTE>>)>>
\* salience\s+(-?\d+)          group 1 is items 3..4
salience_pattern == <<Lit(S_salience), Plus(Spaces), Opt(Cls({"-"})), Plus(Cls(DigitChars))>>
\* \s+when
when_pattern == <<Plus(Spaces), Lit(S_when)>>
\* \s+then
then_pattern == <<Plus(Spaces), Lit(S_then)>>
\* end
end_pattern == <<Lit(S_end)>>
\* \s+\$?(\w+)\s*:\s*([^\(]+)\(([^\)]*)\)      groups 1, 2, 3 are items 3, 7, 9
condition_pattern ==
  <<Plus(Spaces), Opt(Cls({"$"})), Plus(Cls(WordChars)), Star(Spaces), Lit(<<":">>),
    Star(Spaces), Plus(NotCls({"("})), Lit(<<"(">>), Star(NotCls({")"})), Lit(<<")">>)>>
\* (\w+)\s*([=!<>]+|==|!=|<=|>=|matches)\s*([^,&\)]+)   groups 1, 2, 3 are items 1, 3, 5
constraint_pattern ==
  <<Plus(Cls(WordChars)), Star(Spaces),
    Alt(<<Plus(Cls({"=", "!", "<", ">"})), Lit(S_eqeq), Lit(S_neq), Lit(S_le), Lit(S_ge),
          Lit(S_matches)>>),
    Star(Spaces), Plus(NotCls({",", "&", ")"}))>>
\* a variant whose receiver is a word, (\w+)\.(\w+)\(([^)]*)\): it would drop the $
\* of the receiver, which C6_ScenarioA must notice
method_call_pattern_word ==
  <<Plus(Cls(WordChars)), Lit(<<".">>), Plus(Cls(WordChars)), Lit(<<"(">>),
    Star(NotCls({")"})), Lit(<<")">>)>>
\* ([^.]+)\.(\w+)\(([^)]*)\)   (_parse_actions)   groups 1, 2, 3 are items 1, 3, 5
method_call_pattern ==
  <<Plus(NotCls({"."})), Lit(<<".">>), Plus(Cls(WordChars)), Lit(<<"(">>),
    Star(NotCls({")"})), Lit(<<")">>)>>
\* ([^=]+)\s*=\s*(.+)          (_parse_actions)   groups 1, 2 are items 1, 5
assignment_pattern ==
  <<Plus(NotCls({"="})), Star(Spaces), Lit(<<"=">>), Star(Spaces), Plus(NotCls({NL}))>>
\* query\s+"([^"]+)"
query_pattern == <<Lit(S_query), Plus(Spaces), Lit(<<QUOTE>>), Plus(NotCls({QUOTE})), Lit(<<QUOTE>>)>>
\* function\s+([^\s(]+)\s+([^\s(]+)\s*\(([^)]*)\)
function_pattern ==
  <<Lit(S_function), Plus(Spaces), Plus(NotCls(SpaceChars \cup {"("})), Plus(Spaces),
    Plus(NotCls(SpaceChars \cup {"("})), Star(Spaces), Lit(<<"(">>), Star(NotCls({")"})),
    Lit(<<")">>)>>
\* declare\s+([^\s]+)
declare_pattern == <<Lit(S_declare), Plus(Spaces), Plus(NotCls(SpaceChars))>>

\* ------------------------------------------------------------------ model values
\* (parser/models.py; an Optional field is <<>> for None, <<v>> for a value)

None == <<>>
Some(v) == <<v>>

Constraint(field, operator, value) ==
  [field |-> field, operator |-> operator, value |-> value]
Condition(variable, type, constraints) ==
  [variable |-> variable, type |-> type, constraints |-> constraints]
Action(type, target, method, arguments) ==
  [type |-> type, target |-> target, method |-> method, arguments |-> arguments]
Rule(name, extends, salience, conditions, actions) ==
  [name |-> name, extends |-> extends, salience |-> salience,
   conditions |-> conditions, actions |-> actions]

\* one entry of ParserErrorHandler.errors
ErrorDetails(type, message, file_path, line_number, rule_name, recoverable, exception_type) ==
  [type |-> type, message |-> message, file_path |-> file_path,
   line_number |-> line_number, rule_name |-> rule_name,
   recoverable |-> recoverable, exception_type |-> exception_type]

\* ------------------------------------------------------------------ error handler

ErrorTypes == {"file", "rule", "condition", "action", "query", "function",
               "declared_type", "other"}

\* ParserErrorHandler.__init__ / reset_counts
EmptyHandler == [error_counts |-> [t \in ErrorTypes |-> 0], errors |-> <<>>]
\* a variant that forgets to clear, which C21_Idempotent must notice
reset_counts_keeps(eh) == eh
reset_counts(eh) == EmptyHandler

\* a variant that drops a diagnostic of an unknown category instead of filing
\* it under "other", which C23_CollectorConsistent must notice
handle_error_known(eh, d) ==
  IF d.type \in ErrorTypes
  THEN [error_counts |-> [eh.error_counts EXCEPT ![d.type] = @ + 1],
        errors |-> Append(eh.errors, d)]
  ELSE eh

\* ParserErrorHandler.handle_error
handle_error(eh, d) ==
  LET t == IF d.type \in ErrorTypes THEN d.type ELSE "other"
  IN [error_counts |-> [eh.error_counts EXCEPT ![t] = @ + 1],
      errors |-> Append(eh.errors, d)]

RECURSIVE handle_errors(_, _)
handle_errors(eh, ds) ==
  IF ds = <<>> THEN eh ELSE handle_errors(handle_error(eh, Head(ds)), Tail(ds))

RECURSIVE SumCounts(_, _)
SumCounts(counts, ts) ==
  IF ts = {} THEN 0
  ELSE LET t == CHOOSE x \in ts : TRUE IN counts[t] + SumCounts(counts, ts \ {t})

\* ParserErrorHandler.get_error_summary
get_error_summary(eh) ==
  [total |-> SumCounts(eh.error_counts, ErrorTypes),
   counts |-> eh.error_counts, errors |-> eh.errors]

\* first position of pat in s, 0 when absent (str.find, 1-based)
Find(s, pat) ==
  LET hits == {i \in 1..(Len(s) - Len(pat) + 1) : LitAt(s, i, pat)}
  IN IF hits = {} THEN 0 ELSE Least(hits)

CountChar(s, c) == Cardinality({i \in 1..Len(s) : s[i] = c})

\* error_handler.find_line_for_pattern (with extract_line_number)
find_line_for_pattern(content, pattern) ==
  IF pattern = <<>> \/ content = <<>> THEN -1
  ELSE LET pos == Find(content, pattern)
       IN IF pos = 0 THEN -1 ELSE CountChar(Slice(content, 1, pos - 1), NL) + 1

\* ------------------------------------------------------------------ rule parser

\* DroolsParser._extract_rule_blocks: the loop over the lines
RECURSIVE ExtractLoop(_, _, _, _, _)
ExtractLoop(lines, i, rule_blocks, current_block, in_rule) ==
  IF i > Len(lines)
  THEN IF current_block # <<>> THEN Append(rule_blocks, Join(current_block, <<NL>>))
       ELSE rule_blocks
  ELSE LET line == lines[i] IN
       IF ReMatch(rule_pattern, line) # <<>>
       THEN ExtractLoop(lines, i + 1,
                        IF in_rule THEN Append(rule_blocks, Join(current_block, <<NL>>))
                        ELSE rule_blocks,
                        <<line>>, TRUE)
       ELSE IF in_rule
       THEN IF ReMatch(end_pattern, Strip(line)) # <<>>
            THEN ExtractLoop(lines, i + 1,
                             Append(rule_blocks, Join(Append(current_block, line), <<NL>>)),
                             <<>>, FALSE)
            ELSE ExtractLoop(lines, i + 1, rule_blocks, Append(current_block, line), TRUE)
       ELSE ExtractLoop(lines, i + 1, rule_blocks, current_block, in_rule)

_extract_rule_blocks(content) ==
  ExtractLoop(SplitChar(content, NL), 1, <<>>, <<>>, FALSE)

\* DroolsParser._split_constraints: the loop over the characters
RECURSIVE SplitConstraintsLoop(_, _, _, _, _)
SplitConstraintsLoop(s, i, result, current, paren_level) ==
  IF i > Len(s)
  THEN IF Strip(current) # <<>> THEN Append(result, Strip(current)) ELSE result
  ELSE LET char == s[i] IN
       IF char = "(" THEN
         SplitConstraintsLoop(s, i + 1, result, Append(current, char), paren_level + 1)
       ELSE IF char = ")" THEN
         SplitConstraintsLoop(s, i + 1, result, Append(current, char), paren_level - 1)
       ELSE IF char = "&" /\ paren_level = 0 THEN
         SplitConstraintsLoop(s, i + 1,
                              IF Strip(current) # <<>> THEN Append(result, Strip(current))
                              ELSE result,
                              <<>>, paren_level)
       ELSE SplitConstraintsLoop(s, i + 1, result, Append(current, char), paren_level)

_split_constraints(constraints_str) == SplitConstraintsLoop(constraints_str, 1, <<>>, <<>>, 0)

\* the quote removal of _parse_constraints
Unquote(value) ==
  IF (StartsWith(value, <<QUOTE>>) /\ EndsWith(value, <<QUOTE>>))
     \/ (StartsWith(value, <<APOS>>) /\ EndsWith(value, <<APOS>>))
  THEN Slice(value, 2, Len(value) - 1)
  ELSE value

\* DroolsParser._parse_constraints: the constraints appended to the condition
\* and the diagnostics handed to the error handler, in order
\* one pass of the loop, m being the match of constraint_pattern on the part
ParseConstraintPart(part, m, file_path, rule_name, acc) ==
  IF m # <<>>
  THEN [acc EXCEPT !.constraints =
          Append(@, Constraint(Group(part, m, 1), Group(part, m, 3),
                               Unquote(Strip(Group(part, m, 5)))))]
  ELSE [acc EXCEPT !.diags =
          Append(@, ErrorDetails("condition", "Could not parse constraint part",
                                 file_path, None, rule_name, TRUE, "Exception"))]

RECURSIVE ParseConstraintParts(_, _, _, _, _)
ParseConstraintParts(parts, i, file_path, rule_name, acc) ==
  IF i > Len(parts) THEN acc
  ELSE ParseConstraintParts(parts, i + 1, file_path, rule_name,
         ParseConstraintPart(parts[i], ReSearch(constraint_pattern, parts[i]),
                             file_path, rule_name, acc))

_parse_constraints(constraints_str, file_path, rule_name) ==
  ParseConstraintParts(_split_constraints(constraints_str), 1, file_path, rule_name,
                       [constraints |-> <<>>, diags |-> <<>>])

\* DroolsParser._parse_conditions: one Condition per match of condition_pattern
\* one pass of the loop, parsed being what _parse_constraints gave
AddCondition(acc, variable, type_name, parsed) ==
  [conditions |-> Append(acc.conditions, Condition(variable, type_name, parsed.constraints)),
   diags |-> acc.diags \o parsed.diags]

ConstraintsOf(constraints_str, file_path, rule_name) ==
  IF constraints_str # <<>>
  THEN _parse_constraints(constraints_str, file_path, rule_name)
  ELSE [constraints |-> <<>>, diags |-> <<>>]

RECURSIVE ParseConditionMatches(_, _, _, _, _, _)
ParseConditionMatches(when_part, ms, i, file_path, rule_name, acc) ==
  IF i > Len(ms) THEN acc
  ELSE ParseConditionMatches(when_part, ms, i + 1, file_path, rule_name,
         AddCondition(acc, Group(when_part, ms[i], 3), Strip(Group(when_part, ms[i], 7)),
                      ConstraintsOf(Strip(Group(when_part, ms[i], 9)), file_path, rule_name)))

_parse_conditions(when_part, file_path, rule_name) ==
  ParseConditionMatches(when_part, FindIter(condition_pattern, when_part), 1,
                        file_path, rule_name, [conditions |-> <<>>, diags |-> <<>>])

\* DroolsParser._parse_arguments: the loop over the characters
\* (quote_char is <<>> for None)
RECURSIVE ParseArgumentsLoop(_, _, _, _, _, _)
ParseArgumentsLoop(s, i, args, current, paren_level, quote_char) ==
  IF i > Len(s)
  THEN IF Strip(current) # <<>> THEN Append(args, Strip(current)) ELSE args
  ELSE LET char == s[i] IN
       IF char = QUOTE \/ char = APOS THEN
         ParseArgumentsLoop(s, i + 1, args, Append(current, char), paren_level,
                            IF quote_char = <<>> THEN <<char>>
                            ELSE IF quote_char = <<char>> THEN <<>>
                            ELSE quote_char)
       ELSE IF char = "(" /\ quote_char = <<>> THEN
         ParseArgumentsLoop(s, i + 1, args, Append(current, char), paren_level + 1, quote_char)
       ELSE IF char = ")" /\ quote_char = <<>> THEN
         ParseArgumentsLoop(s, i + 1, args, Append(current, char), paren_level - 1, quote_char)
       ELSE IF char = "," /\ paren_level = 0 /\ quote_char = <<>> THEN
         ParseArgumentsLoop(s, i + 1, Append(args, Strip(current)), <<>>, paren_level, quote_char)
       ELSE ParseArgumentsLoop(s, i + 1, args, Append(current, char), paren_level, quote_char)

_parse_arguments(args_str) ==
  IF args_str = <<>> THEN <<>> ELSE ParseArgumentsLoop(args_str, 1, <<>>, <<>>, 0, <<>>)

\* _parse_actions, first loop: strip each line, drop blank and comment lines,
\* remove one trailing semicolon
RECURSIVE CleanLines(_)
CleanLines(lines) ==
  IF lines = <<>> THEN <<>>
  ELSE LET line == Strip(Head(lines)) IN
       IF line = <<>> \/ StartsWith(line, S_comment) THEN CleanLines(Tail(lines))
       ELSE <<IF EndsWith(line, <<";">>) THEN Slice(line, 1, Len(line) - 1) ELSE line>>
            \o CleanLines(Tail(lines))

\* _parse_actions, second loop: one Action per non-empty statement
\* mm and am are the matches of method_call_pattern and assignment_pattern
ActionOf(statement, mm, am) ==
  IF statement = <<>> THEN <<>>
  ELSE IF mm # <<>>
  THEN <<Action("method_call", Strip(Group(statement, mm, 1)),
                Some(Strip(Group(statement, mm, 3))),
                _parse_arguments(Strip(Group(statement, mm, 5))))>>
  ELSE IF am # <<>>
  THEN <<Action("assignment", Strip(Group(statement, am, 1)), None,
                <<Strip(Group(statement, am, 5))>>)>>
  ELSE <<Action("statement", statement, None, <<>>)>>

StatementAction(statement) ==
  ActionOf(statement, ReSearch(method_call_pattern, statement),
           ReSearch(assignment_pattern, statement))

ParseStatement(raw) == StatementAction(Strip(raw))

RECURSIVE ParseStatements(_)
ParseStatements(statements) ==
  IF statements = <<>> THEN <<>>
  ELSE ParseStatement(Head(statements)) \o ParseStatements(Tail(statements))

\* the text _parse_actions splits into statements
ThenText(then_part) == Join(CleanLines(SplitChar(then_part, NL)), <<" ">>)

\* DroolsParser._parse_actions
_parse_actions(then_part) == ParseStatements(SplitChar(ThenText(then_part), ";"))

\* int() of a match of -?\d+
DigitValue(c) ==
  CASE c = "0" -> 0 [] c = "1" -> 1 [] c = "2" -> 2 [] c = "3" -> 3 [] c = "4" -> 4
    [] c = "5" -> 5 [] c = "6" -> 6 [] c = "7" -> 7 [] c = "8" -> 8 [] c = "9" -> 9
RECURSIVE DigitsValue(_)
DigitsValue(ds) ==
  IF ds = <<>> THEN 0 ELSE 10 * DigitsValue(SubSeq(ds, 1, Len(ds) - 1)) + DigitValue(ds[Len(ds)])
ParseInt(txt) == IF txt[1] = "-" THEN 0 - DigitsValue(Tail(txt)) ELSE DigitsValue(txt)

(* DroolsParser._parse_rule_block.  raised is "" when a Rule is returned,   *)
(* else the class of the exception that leaves the method; diags are the    *)
(* diagnostics the method itself hands to the error handler.  The rule's    *)
(* attributes dictionary is not modelled.                                   *)
MalformedRule(msg, name) ==
  [raised |-> "MalformedRuleError", message |-> msg, rule_name |-> name, rule |-> None,
   diags |-> <<>>]

\* the Rule built from the parts of the block
ParsedRule(rule_name, extends, salience, conds, actions) ==
  [raised |-> "", message |-> "", rule_name |-> Some(rule_name),
   rule |-> Some(Rule(rule_name, extends, salience, conds.conditions, actions)),
   diags |-> conds.diags]

RuleOfMatches(rule_block, file_path, rule_name, extends_match, salience_match, when_match, then_match, end_match) ==
  IF when_match = <<>> THEN MalformedRule("Missing 'when' section in rule", Some(rule_name))
  ELSE IF then_match = <<>>
  THEN MalformedRule("Missing 'then' section in rule", Some(rule_name))
  ELSE IF end_match = <<>>
  THEN MalformedRule("Missing 'end' statement in rule", Some(rule_name))
  ELSE ParsedRule(rule_name,
         IF extends_match # <<>> THEN Some(Group(rule_block, extends_match, 4)) ELSE None,
         IF salience_match # <<>>
         THEN Some(ParseInt(Slice(rule_block, salience_match[3],
                                  MatchEnd(salience_match) - 1)))
         ELSE None,
         _parse_conditions(
           Slice(rule_block, MatchEnd(when_match), MatchStart(then_match) - 1),
           file_path, Some(rule_name)),
         _parse_actions(
           Slice(rule_block, MatchEnd(then_match), MatchStart(end_match) - 1)))

RuleOfBlock(rule_block, file_path, rule_match) ==
  IF rule_match = <<>> THEN MalformedRule("Could not find rule name in block", None)
  ELSE RuleOfMatches(rule_block, file_path, Group(rule_block, rule_match, 4),
                     ReSearch(extends_pattern, rule_block),
                     ReSearch(salience_pattern, rule_block),
                     ReSearch(when_pattern, rule_block),
                     ReSearch(then_pattern, rule_block),
                     ReSearch(end_pattern, rule_block))

_parse_rule_block(rule_block, file_path) ==
  RuleOfBlock(rule_block, file_path, ReSearch(rule_pattern, rule_block))

(* DroolsParser._parse_rules, the loop over the rule blocks: a Rule is      *)
(* appended, or the RuleParsingError that left _parse_rule_block is handed  *)
(* to the error handler and the loop goes on with the next block.           *)
\* one pass of the loop, r being what _parse_rule_block gave and eh1 the
\* error handler after the diagnostics of the block's conditions
AfterRuleBlock(content, rule_block, file_path, rules, eh1, r) ==
  IF r.raised = ""
  THEN [rules |-> rules \o r.rule, eh |-> eh1]
  ELSE [rules |-> rules,
        eh |-> handle_error(eh1,
                 ErrorDetails("rule", r.message, file_path,
                              IF rule_block # <<>>
                              THEN Some(find_line_for_pattern(content,
                                          Head(SplitChar(rule_block, NL))))
                              ELSE None,
                              r.rule_name, TRUE, r.raised))]

ParseRuleBlock(content, rule_block, file_path, acc, r) ==
  AfterRuleBlock(content, rule_block, file_path, acc.rules,
                 handle_errors(acc.eh, r.diags), r)

RECURSIVE ParseRuleBlocks(_, _, _, _, _)
ParseRuleBlocks(content, blocks, i, file_path, acc) ==
  IF i > Len(blocks) THEN acc
  ELSE ParseRuleBlocks(content, blocks, i + 1, file_path,
         ParseRuleBlock(content, blocks[i], file_path, acc,
                        _parse_rule_block(blocks[i], file_path)))

\* DroolsParser._parse_rules (rule blocks; the texts of the model hold no
\* import, global, query, function or declare line, for which parse_file
\* and the later passes of _parse_rules find nothing)
_parse_rules(content, file_path, eh) ==
  ParseRuleBlocks(content, _extract_rule_blocks(content), 1, file_path,
                  [rules |-> <<>>, eh |-> eh])

\* ------------------------------------------------------------------ function parser

\* Parameter and Function (parser/models.py)
Parameter(type, name) == [type |-> type, name |-> name]
Function(return_type, name, parameters, body) ==
  [return_type |-> return_type, name |-> name, parameters |-> parameters, body |-> body]

\* str.split(): the runs of characters that are no white space
RECURSIVE SplitStripped(_)
SplitStripped(t) ==
  IF t = <<>> THEN <<>>
  ELSE <<Slice(t, 1, RunLen(t, 1, NotCls(SpaceChars), Len(t)))>>
       \o SplitStripped(LStrip(Slice(t, RunLen(t, 1, NotCls(SpaceChars), Len(t)) + 1, Len(t))))
SplitSpace(s) == SplitStripped(LStrip(s))

\* str.find(c, from) and str.rfind(c) for one character, 0 when absent
FindChar(s, c, from) ==
  IF \E i \in from..Len(s) : s[i] = c THEN Least({i \in from..Len(s) : s[i] = c}) ELSE 0
RFindChar(s, c) ==
  IF \E i \in 1..Len(s) : s[i] = c
  THEN CHOOSE i \in 1..Len(s) : s[i] = c /\ \A j \in (i + 1)..Len(s) : s[j] # c
  ELSE 0

\* line.count('{') - line.count('}')
BraceDelta(line) == CountChar(line, "{") - CountChar(line, "}")

\* _parse_functions, block pass: the loop over the lines
RECURSIVE FunctionBlocksLoop(_, _, _, _, _, _)
FunctionBlocksLoop(lines, i, function_blocks, current_block, in_function, brace_count) ==
  IF i > Len(lines)
  THEN IF current_block # <<>> /\ in_function
       THEN Append(function_blocks, Join(current_block, <<NL>>))
       ELSE function_blocks
  ELSE IF ReMatch(function_pattern, lines[i]) # <<>>
  THEN FunctionBlocksLoop(lines, i + 1, function_blocks, <<lines[i]>>, TRUE,
                          BraceDelta(lines[i]))
  ELSE IF in_function
  THEN IF brace_count + BraceDelta(lines[i]) = 0
       THEN FunctionBlocksLoop(lines, i + 1,
                               Append(function_blocks,
                                      Join(Append(current_block, lines[i]), <<NL>>)),
                               <<>>, FALSE, 0)
       ELSE FunctionBlocksLoop(lines, i + 1, function_blocks,
                               Append(current_block, lines[i]), TRUE,
                               brace_count + BraceDelta(lines[i]))
  ELSE FunctionBlocksLoop(lines, i + 1, function_blocks, current_block, in_function,
                          brace_count)

\* block pass: a parameter is the first two words of its part
RECURSIVE BlockParameters(_, _)
BlockParameter(words) ==
  IF Len(words) >= 2 THEN <<Parameter(words[1], words[2])>> ELSE <<>>
BlockParameters(param_parts, i) ==
  IF i > Len(param_parts) THEN <<>>
  ELSE BlockParameter(SplitSpace(param_parts[i])) \o BlockParameters(param_parts, i + 1)

\* block pass: the body lies between the first { and the last } of the block
BlockBody(function_block, body_start, body_end) ==
  IF body_start # 0 /\ body_end # 0 /\ body_end > body_start
  THEN Strip(Slice(function_block, body_start + 1, body_end - 1))
  ELSE <<>>

\* block pass: the Function of one block, m being the match of function_pattern
FunctionOfBlock(function_block, m) ==
  Function(Group(function_block, m, 3), Group(function_block, m, 5),
           BlockParameters(SplitChar(Strip(Group(function_block, m, 8)), ","), 1),
           BlockBody(function_block, FindChar(function_block, "{", 1),
                     RFindChar(function_block, "}")))

BlockPassStep(function_block, file_path, acc, m) ==
  IF m = <<>>
  THEN [acc EXCEPT !.eh = handle_error(@,
          ErrorDetails("function", "Could not find function declaration in block",
                       file_path, None, None, TRUE, "Exception"))]
  ELSE [acc EXCEPT !.functions = Append(@, FunctionOfBlock(function_block, m))]

RECURSIVE BlockPass(_, _, _, _)
BlockPass(function_blocks, i, file_path, acc) ==
  IF i > Len(function_blocks) THEN acc
  ELSE BlockPass(function_blocks, i + 1, file_path,
                 BlockPassStep(function_blocks[i], file_path, acc,
                               ReSearch(function_pattern, function_blocks[i])))

\* declaration pass: the position of the } that closes the { before position
\* i, 0 when the text ends first
RECURSIVE MatchingBrace(_, _, _)
MatchingBrace(content, i, brace_level) ==
  IF i > Len(content) THEN 0
  ELSE IF content[i] = "{" THEN MatchingBrace(content, i + 1, brace_level + 1)
  ELSE IF content[i] = "}"
  THEN IF brace_level = 1 THEN i ELSE MatchingBrace(content, i + 1, brace_level - 1)
  ELSE MatchingBrace(content, i + 1, brace_level)

\* str.rsplit(' ', 1) on a part that holds a space
RSplitSpace(part) ==
  <<Slice(part, 1, RFindChar(part, " ") - 1), Slice(part, RFindChar(part, " ") + 1, Len(part))>>

\* declaration pass: a parameter is split at the last space of its part
RECURSIVE DeclarationParameters(_, _)
DeclarationParameter(part) ==
  IF RFindChar(part, " ") # 0
  THEN <<Parameter(Strip(RSplitSpace(part)[1]), Strip(RSplitSpace(part)[2]))>>
  ELSE <<>>
DeclarationParameters(param_parts, i) ==
  IF i > Len(param_parts) THEN <<>>
  ELSE DeclarationParameter(Strip(param_parts[i])) \o DeclarationParameters(param_parts, i + 1)

FunctionOfDeclaration(content, m, open_brace_pos, close_brace_pos) ==
  Function(Strip(Group(content, m, 3)), Strip(Group(content, m, 5)),
           IF Strip(Group(content, m, 8)) = <<>> THEN <<>>
           ELSE DeclarationParameters(SplitChar(Strip(Group(content, m, 8)), ","), 1),
           Strip(Slice(content, open_brace_pos + 1, close_brace_pos - 1)))

(* declaration pass: the loop over the matches of function_pattern in the   *)
(* whole text.  A declaration without its opening or closing brace reaches  *)
(* parsing_errors.append, a name the method never binds: the NameError is   *)
(* caught by the except of the loop body, whose handler appends to the same *)
(* name, and that second NameError leaves the method.                       *)
RECURSIVE DeclarationPass(_, _, _, _)
DeclarationStep(content, ms, i, acc, open_brace_pos, close_brace_pos) ==
  IF open_brace_pos = 0 \/ close_brace_pos = 0
  THEN [acc EXCEPT !.raised = "NameError"]
  ELSE DeclarationPass(content, ms, i + 1,
         [acc EXCEPT !.functions =
            Append(@, FunctionOfDeclaration(content, ms[i], open_brace_pos, close_brace_pos))])
DeclarationBraces(content, ms, i, acc, open_brace_pos) ==
  DeclarationStep(content, ms, i, acc, open_brace_pos,
                  IF open_brace_pos = 0 THEN 0
                  ELSE MatchingBrace(content, open_brace_pos + 1, 1))
DeclarationPass(content, ms, i, acc) ==
  IF i > Len(ms) THEN acc
  ELSE DeclarationBraces(content, ms, i, acc, FindChar(content, "{", MatchEnd(ms[i])))

\* DroolsParser._parse_functions: the functions it leaves in
\* rule_file.functions, the handler, and the exception that leaves it
_parse_functions(content, file_path, handler) ==
  DeclarationPass(content, FindIter(function_pattern, content), 1,
    [raised |-> ""] @@
    BlockPass(FunctionBlocksLoop(SplitChar(content, NL), 1, <<>>, <<>>, FALSE, 0), 1,
              file_path, [functions |-> <<>>, eh |-> handler]))

\* _parse_rules, the functions section: an exception that leaves
\* _parse_functions is recorded and parsing goes on
FunctionsSection(file_path, r) ==
  IF r.raised = "" THEN [functions |-> r.functions, eh |-> r.eh]
  ELSE [functions |-> r.functions,
        eh |-> handle_error(r.eh,
                 ErrorDetails("function", "name 'parsing_errors' is not defined", file_path,
                              None, None, TRUE, r.raised))]

\* RuleFile (parser/models.py)
RuleFile(path, package, imports, globals, rules) ==
  [path |-> path, package |-> package, imports |-> imports, globals |-> globals,
   rules |-> rules]

\* the package name parse_file takes from a match of package_pattern
PackageName(content, m) ==
  LET package == Strip(Group(content, m, 3))
  IN IF package # <<>> /\ \E i \in 1..Len(package) : package[i] = NL
     THEN Strip(Head(SplitChar(package, NL)))
     ELSE package

(* DroolsParser.parse_file on a file f = [path, exists, readable, content]. *)
(* raised is "" when a RuleFile is returned, else the class of the          *)
(* exception that leaves parse_file; eh is the error handler afterwards.    *)
\* the RuleFile parse_file returns, pr being what _parse_rules gave
ParsedFile(f, package, pr) ==
  [raised |-> "", rule_file |-> Some(RuleFile(f.path, package, <<>>, <<>>, pr.rules)), eh |-> pr.eh]

\* a variant that gives up on a text without a package declaration, which
\* C20_NeverRaises must notice
ParseContentStrict(f, eh, package_match) ==
  IF package_match # <<>>
  THEN ParsedFile(f, PackageName(f.content, package_match),
                  _parse_rules(f.content, Some(f.path), eh))
  ELSE [raised |-> "FileParsingError", rule_file |-> None,
        eh |-> handle_error(eh, ErrorDetails("file", "No package declaration found",
                                             Some(f.path), None, None, FALSE,
                                             "FileParsingError"))]

\* parse_file from the package declaration on
ParseContent(f, eh, package_match) ==
  IF package_match # <<>>
  THEN ParsedFile(f, PackageName(f.content, package_match),
                  _parse_rules(f.content, Some(f.path), eh))
  ELSE ParsedFile(f, <<>>,
         _parse_rules(f.content, Some(f.path),
           handle_error(eh, ErrorDetails("file", "No package declaration found",
                                         Some(f.path), None, None, TRUE, "Exception"))))

\* parse_file after its reset_counts()
ParseChecked(f, eh) ==
  IF ~f.exists
  THEN [raised |-> "FileNotFoundError", rule_file |-> None, eh |-> eh]
  ELSE IF ~f.readable
  THEN [raised |-> "PermissionError", rule_file |-> None,
        eh |-> handle_error(eh, ErrorDetails("file", "Permission denied", Some(f.path),
                                             None, None, FALSE, "PermissionError"))]
  ELSE IF Strip(f.content) = <<>>
  THEN [raised |-> "", rule_file |-> Some(RuleFile(f.path, <<>>, <<>>, <<>>, <<>>)), eh |-> eh]
  ELSE ParseContent(f, eh, ReSearch(package_pattern, f.content))

parse_file(f, eh0) == ParseChecked(f, reset_counts(eh0))

(* parse_file on a text that declares functions: the RuleFile carries the   *)
(* functions that the functions section of _parse_rules left in it.  (The   *)
(* texts of the other specifications hold no function declaration, and      *)
(* their RuleFiles are written without the empty list.)                     *)
WithFunctions(rule_file, fs) ==
  [path |-> rule_file.path, package |-> rule_file.package, imports |-> rule_file.imports,
   globals |-> rule_file.globals, rules |-> rule_file.rules, functions |-> fs.functions]
ParsedWithFunctions(r, fs) ==
  [raised |-> r.raised, rule_file |-> Some(WithFunctions(r.rule_file[1], fs)), eh |-> fs.eh]
FunctionsOf(f, r) ==
  IF r.rule_file = None \/ Strip(f.content) = <<>> THEN r
  ELSE ParsedWithFunctions(r,
         FunctionsSection(Some(f.path), _parse_functions(f.content, Some(f.path), r.eh)))
parse_file_functions(f, eh0) == FunctionsOf(f, parse_file(f, eh0))

\* ------------------------------------------------------------------ graph builder
\* (graph/builder.py.  The Neo4j store is a record of its nodes, by label,
\* and of its relationships, by type.  Rule nodes are kept in the order of
\* their creation, which is the order of their internal ids; a relationship
\* is the pair of the keys of its two nodes.)

EmptyGraph ==
  [rule_files |-> {}, classes |-> {}, globals |-> {}, rules |-> <<>>,
   conditions |-> {}, constraints |-> {}, actions |-> {},
   imports |-> {}, declares |-> {}, contains |-> {}, extends |-> {},
   has_condition |-> {}, has_constraint |-> {}, has_action |-> {},
   references |-> {}, modifies |-> {}]

\* the queries of a batch run one after the other (execute_batch)
RECURSIVE FoldLeft(_, _, _)
FoldLeft(Op(_, _), acc, seq) ==
  IF seq = <<>> THEN acc ELSE FoldLeft(Op, Op(acc, Head(seq)), Tail(seq))

RECURSIVE Flatten(_)
Flatten(seqs) == IF seqs = <<>> THEN <<>> ELSE Head(seqs) \o Flatten(Tail(seqs))

\* str() of a position
DigitChar(d) ==
  CASE d = 0 -> "0" [] d = 1 -> "1" [] d = 2 -> "2" [] d = 3 -> "3" [] d = 4 -> "4"
    [] d = 5 -> "5" [] d = 6 -> "6" [] d = 7 -> "7" [] d = 8 -> "8" [] d = 9 -> "9"
RECURSIVE IntStr(_)
IntStr(n) == IF n < 10 THEN <<DigitChar(n)>> ELSE Append(IntStr(n \div 10), DigitChar(n % 10))

S_dot_condition == <<".", "c", "o", "n", "d", "i", "t", "i", "o", "n", ".">>
S_dot_constraint == <<".", "c", "o", "n", "s", "t", "r", "a", "i", "n", "t", ".">>
S_dot_action == <<".", "a", "c", "t", "i", "o", "n", ".">>

\* Import and Global (parser/models.py)
Import(package, class_name) == [package |-> package, class_name |-> class_name]
full_name(imp) == imp.package \o <<".">> \o imp.class_name
Global(type, name) == [type |-> type, name |-> name]

\* the key of a Rule or Global node
NodeKey(n) == <<n.name, n.package>>
HasRuleFile(g, path) == \E rf \in g.rule_files : rf.path = path
HasRule(g, key) == \E i \in DOMAIN g.rules : NodeKey(g.rules[i]) = key

\* MERGE (rf:RuleFile {path}) SET rf.package
MergeRuleFile(g, f) ==
  [g EXCEPT !.rule_files =
     {rf \in @ : rf.path # f.path} \cup {[path |-> f.path, package |-> f.package]}]

_create_rule_files(g, rule_files) == FoldLeft(MergeRuleFile, g, rule_files)

all_imports(rule_files) ==
  UNION {{rule_files[i].imports[j] : j \in DOMAIN rule_files[i].imports} :
         i \in DOMAIN rule_files}

\* MERGE (c:Class {full_name}) SET c.package, c.name, for every import
MergeClasses(g, imports) ==
  [g EXCEPT !.classes =
     {c \in @ : \A imp \in imports : c.full_name # full_name(imp)}
     \cup {[full_name |-> full_name(imp), package |-> imp.package,
            name |-> imp.class_name] : imp \in imports}]

\* MATCH the RuleFile and the Class, MERGE (rf)-[:IMPORTS]->(c), per import
MergeImports(g, f) ==
  [g EXCEPT !.imports =
     @ \cup {<<f.path, full_name(f.imports[j])>> : j \in
               {j \in DOMAIN f.imports :
                  /\ HasRuleFile(g, f.path)
                  /\ \E c \in g.classes : c.full_name = full_name(f.imports[j])}}]

_create_imports_and_classes(g, rule_files) ==
  FoldLeft(MergeImports, MergeClasses(g, all_imports(rule_files)), rule_files)

\* MATCH the RuleFile, MERGE (g:Global {name, package}) SET g.type,
\* MERGE (rf)-[:DECLARES]->(g)
MergeGlobal(g, it) ==
  IF ~HasRuleFile(g, it.file.path) THEN g
  ELSE [g EXCEPT
          !.globals = {x \in @ : NodeKey(x) # <<it.glob.name, it.file.package>>}
                      \cup {[name |-> it.glob.name, package |-> it.file.package,
                             type |-> it.glob.type]},
          !.declares = @ \cup {<<it.file.path, <<it.glob.name, it.file.package>>>>}]

FileGlobals(f) == [j \in DOMAIN f.globals |-> [file |-> f, glob |-> f.globals[j]]]

_create_globals(g, rule_files) ==
  FoldLeft(MergeGlobal, g, Flatten([i \in DOMAIN rule_files |-> FileGlobals(rule_files[i])]))

\* MATCH the RuleFile, MERGE (r:Rule {name, package}) SET r.salience,
\* MERGE (rf)-[:CONTAINS]->(r)
MergeRule(g, it) ==
  IF ~HasRuleFile(g, it.file.path) THEN g
  ELSE [g EXCEPT
          !.rules = IF HasRule(g, <<it.rule.name, it.file.package>>)
                    THEN [i \in DOMAIN @ |->
                            IF NodeKey(@[i]) = <<it.rule.name, it.file.package>>
                            THEN [@[i] EXCEPT !.salience = it.rule.salience]
                            ELSE @[i]]
                    ELSE Append(@, [name |-> it.rule.name, package |-> it.file.package,
                                    salience |-> it.rule.salience]),
          !.contains = @ \cup {<<it.file.path, <<it.rule.name, it.file.package>>>>}]

\* MATCH (r1:Rule {name, package}) MATCH (r2:Rule {name: $extends_name})
\* MERGE (r1)-[:EXTENDS]->(r2): r2 ranges over the Rule nodes there are
\* when the query runs
MergeExtends(g, it) ==
  [g EXCEPT !.extends =
     @ \cup {<<<<it.rule.name, it.file.package>>, NodeKey(g.rules[i])>> : i \in
               {i \in DOMAIN g.rules :
                  /\ HasRule(g, <<it.rule.name, it.file.package>>)
                  /\ g.rules[i].name = it.rule.extends[1]}}]

\* the queries _create_rules queues for one rule, in their order
CreateRule(g, it) ==
  IF it.rule.extends # None /\ it.rule.extends[1] # <<>>
  THEN MergeExtends(MergeRule(g, it), it)
  ELSE MergeRule(g, it)

FileRules(f) == [j \in DOMAIN f.rules |-> [file |-> f, rule |-> f.rules[j]]]
AllRules(rule_files) == Flatten([i \in DOMAIN rule_files |-> FileRules(rule_files[i])])

_create_rules(g, rule_files) == FoldLeft(CreateRule, g, AllRules(rule_files))

condition_id(it, i) ==
  it.file.package \o <<".">> \o it.rule.name \o S_dot_condition \o IntStr(i)
constraint_id(it, i, j) == condition_id(it, i) \o S_dot_constraint \o IntStr(j)
action_id(it, i) == it.file.package \o <<".">> \o it.rule.name \o S_dot_action \o IntStr(i)

\* MATCH the Rule, CREATE the Condition and (r)-[:HAS_CONDITION]->(c)
CreateCondition(g, it, i) ==
  IF ~HasRule(g, <<it.rule.name, it.file.package>>) THEN g
  ELSE [g EXCEPT
          !.conditions = @ \cup {[id |-> condition_id(it, i - 1),
                                  variable |-> it.rule.conditions[i].variable,
                                  type |-> it.rule.conditions[i].type,
                                  position |-> i - 1]},
          !.has_condition = @ \cup {<<<<it.rule.name, it.file.package>>,
                                      condition_id(it, i - 1)>>}]

\* MATCH the Condition, CREATE each Constraint and (c)-[:HAS_CONSTRAINT]->(con)
CreateConstraints(g, it, i) ==
  IF ~\E c \in g.conditions : c.id = condition_id(it, i - 1) THEN g
  ELSE [g EXCEPT
          !.constraints = @ \cup
            {[id |-> constraint_id(it, i - 1, j - 1),
              field |-> it.rule.conditions[i].constraints[j].field,
              operator |-> it.rule.conditions[i].constraints[j].operator,
              value |-> it.rule.conditions[i].constraints[j].value,
              position |-> j - 1] : j \in DOMAIN it.rule.conditions[i].constraints},
          !.has_constraint = @ \cup
            {<<condition_id(it, i - 1), constraint_id(it, i - 1, j - 1)>> :
               j \in DOMAIN it.rule.conditions[i].constraints}]

\* MATCH the Condition, MATCH (cl:Class) WHERE cl.name = $type OR
\* cl.full_name ENDS WITH $type, MERGE (c)-[:REFERENCES]->(cl)
ReferenceClasses(g, it, i) ==
  IF ~\E c \in g.conditions : c.id = condition_id(it, i - 1) THEN g
  ELSE [g EXCEPT !.references = @ \cup
          {<<condition_id(it, i - 1), cl.full_name>> : cl \in
             {cl \in g.classes :
                \/ cl.name = it.rule.conditions[i].type
                \/ EndsWith(cl.full_name, it.rule.conditions[i].type)}}]

\* the queries _create_conditions_and_constraints queues for the conditions
\* of one rule, from the i-th on
RECURSIVE CreateConditionsFrom(_, _, _)
CreateConditionsFrom(g, it, i) ==
  IF i > Len(it.rule.conditions) THEN g
  ELSE CreateConditionsFrom(
         ReferenceClasses(CreateConstraints(CreateCondition(g, it, i), it, i), it, i),
         it, i + 1)

CreateConditions(g, it) == CreateConditionsFrom(g, it, 1)

_create_conditions_and_constraints(g, rule_files) ==
  FoldLeft(CreateConditions, g, AllRules(rule_files))

\* MATCH the Rule, CREATE the Action and (r)-[:HAS_ACTION]->(a); the
\* arguments, when there are any, are set by the third query
CreateAction(g, it, i) ==
  IF ~HasRule(g, <<it.rule.name, it.file.package>>) THEN g
  ELSE [g EXCEPT
          !.actions = @ \cup {[id |-> action_id(it, i - 1),
                               type |-> it.rule.actions[i].type,
                               target |-> it.rule.actions[i].target,
                               method |-> it.rule.actions[i].method,
                               position |-> i - 1,
                               arguments |-> IF it.rule.actions[i].arguments # <<>>
                                             THEN Some(it.rule.actions[i].arguments)
                                             ELSE None]},
          !.has_action = @ \cup {<<<<it.rule.name, it.file.package>>,
                                   action_id(it, i - 1)>>}]

\* MATCH the Action, MATCH (g:Global {name: $target}), MERGE (a)-[:MODIFIES]->(g)
ModifyGlobals(g, it, i) ==
  IF ~\E a \in g.actions : a.id = action_id(it, i - 1) THEN g
  ELSE [g EXCEPT !.modifies = @ \cup
          {<<action_id(it, i - 1), NodeKey(gl)>> : gl \in
             {gl \in g.globals : gl.name = it.rule.actions[i].target}}]

\* the queries _create_actions queues for the actions of one rule, from the
\* i-th on
RECURSIVE CreateActionsFrom(_, _, _)
CreateActionsFrom(g, it, i) ==
  IF i > Len(it.rule.actions) THEN g
  ELSE CreateActionsFrom(ModifyGlobals(CreateAction(g, it, i), it, i), it, i + 1)

CreateActions(g, it) == CreateActionsFrom(g, it, 1)

_create_actions(g, rule_files) == FoldLeft(CreateActions, g, AllRules(rule_files))

\* Neo4jGraphPopulator.populate_graph (initialize_graph creates the schema
\* only; _create_relationships does nothing)
populate_graph(g, rule_files) ==
  _create_actions(
    _create_conditions_and_constraints(
      _create_rules(
        _create_globals(
          _create_imports_and_classes(_create_rule_files(g, rule_files), rule_files),
          rule_files),
        rule_files),
      rule_files),
    rule_files)

\* _get_existing_rule_file_paths
_get_existing_rule_file_paths(g) == {rf.path : rf \in g.rule_files}

\* the rule files of the list whose path is (not) among existing_paths, in
\* their order
RECURSIVE SplitRuleFiles(_, _, _)
SplitRuleFiles(rule_files, existing_paths, existing) ==
  IF rule_files = <<>> THEN <<>>
  ELSE (IF (Head(rule_files).path \in existing_paths) = existing
        THEN <<Head(rule_files)>> ELSE <<>>)
       \o SplitRuleFiles(Tail(rule_files), existing_paths, existing)

\* what the OPTIONAL MATCHes of _delete_rule_file_data bind for the path:
\* the rules the file contains, their conditions, constraints and actions
DeletedRules(g, path) == {e[2] : e \in {e \in g.contains : e[1] = path}}
DeletedConditions(g, path) ==
  {e[2] : e \in {e \in g.has_condition : e[1] \in DeletedRules(g, path)}}
DeletedConstraints(g, path) ==
  {e[2] : e \in {e \in g.has_constraint : e[1] \in DeletedConditions(g, path)}}
DeletedActions(g, path) ==
  {e[2] : e \in {e \in g.has_action : e[1] \in DeletedRules(g, path)}}

(* DELETE ri, rd, rc, re, rhc, rhco, rha, rref, rmod: the relationships that *)
(* leave the file (IMPORTS, DECLARES), its rules (CONTAINS, EXTENDS,         *)
(* HAS_CONDITION, HAS_ACTION), their conditions (HAS_CONSTRAINT, REFERENCES) *)
(* and their actions (MODIFIES).  rc is (r)-[:CONTAINS]->(), which no rule   *)
(* has: the (rf)-[:CONTAINS]->(r) of the file are not among them.            *)
DeleteRelationships(g, path, rs, cs, as) ==
  [g EXCEPT
     !.imports = {e \in @ : e[1] # path},
     !.declares = {e \in @ : e[1] # path},
     !.contains = {e \in @ : e[1] \notin rs},
     !.extends = {e \in @ : e[1] \notin rs},
     !.has_condition = {e \in @ : e[1] \notin rs},
     !.has_constraint = {e \in @ : e[1] \notin cs},
     !.has_action = {e \in @ : e[1] \notin rs},
     !.references = {e \in @ : e[1] \notin cs},
     !.modifies = {e \in @ : e[1] \notin as}]

\* DELETE con, c, a, r, rf
RECURSIVE WithoutRules(_, _)
WithoutRules(rules, rs) ==
  IF rules = <<>> THEN <<>>
  ELSE (IF NodeKey(Head(rules)) \in rs THEN <<>> ELSE <<Head(rules)>>)
       \o WithoutRules(Tail(rules), rs)
DeleteNodes(g, path, rs, cs, cons, as) ==
  [g EXCEPT
     !.constraints = {con \in @ : con.id \notin cons},
     !.conditions = {c \in @ : c.id \notin cs},
     !.actions = {a \in @ : a.id \notin as},
     !.rules = WithoutRules(@, rs),
     !.rule_files = {rf \in @ : rf.path # path}]

\* a deleted node that still has a relationship: Neo4j refuses the DELETE of
\* such a node (only DETACH DELETE removes its relationships with it)
StillAttached(g, path, rs, cs, cons, as) ==
  \/ \E e \in g.imports \cup g.declares : e[1] = path
  \/ \E e \in g.contains : e[1] = path \/ e[2] \in rs
  \/ \E e \in g.extends : e[1] \in rs \/ e[2] \in rs
  \/ \E e \in g.has_condition : e[1] \in rs \/ e[2] \in cs
  \/ \E e \in g.has_constraint : e[1] \in cs \/ e[2] \in cons
  \/ \E e \in g.has_action : e[1] \in rs \/ e[2] \in as
  \/ \E e \in g.references \cup g.modifies : e[1] \in cs \cup as

(* the write transaction of _delete_rule_file_data: when a node to delete   *)
(* still has a relationship the transaction fails and is rolled back, and   *)
(* execute_write_query raises Neo4jQueryError                               *)
DeleteTransaction(g, path, rs, cs, cons, as, g1) ==
  IF StillAttached(g1, path, rs, cs, cons, as)
  THEN [raised |-> "Neo4jQueryError", graph |-> g]
  ELSE [raised |-> "", graph |-> DeleteNodes(g1, path, rs, cs, cons, as)]

\* Neo4jGraphPopulator._delete_rule_file_data
_delete_rule_file_data(g, path) ==
  IF ~HasRuleFile(g, path) THEN [raised |-> "", graph |-> g]
  ELSE DeleteTransaction(g, path, DeletedRules(g, path), DeletedConditions(g, path),
                         DeletedConstraints(g, path), DeletedActions(g, path),
                         DeleteRelationships(g, path, DeletedRules(g, path),
                                             DeletedConditions(g, path),
                                             DeletedActions(g, path)))

\* _update_existing_rule_files: the loop of the deletions, stopped by the
\* first that raises
RECURSIVE DeleteRuleFiles(_, _)
DeleteNext(rule_files, r) ==
  IF r.raised # "" THEN r ELSE DeleteRuleFiles(r.graph, Tail(rule_files))
DeleteRuleFiles(g, rule_files) ==
  IF rule_files = <<>> THEN [raised |-> "", graph |-> g]
  ELSE DeleteNext(rule_files, _delete_rule_file_data(g, Head(rule_files).path))

Repopulate(rule_files, r) ==
  IF r.raised # "" THEN r
  ELSE [raised |-> "", graph |-> populate_graph(r.graph, rule_files)]

\* Neo4jGraphPopulator._update_existing_rule_files
_update_existing_rule_files(g, rule_files) ==
  Repopulate(rule_files, DeleteRuleFiles(g, rule_files))

AddNewRuleFiles(new_rule_files, r) ==
  IF r.raised # "" \/ new_rule_files = <<>> THEN r
  ELSE [raised |-> "", graph |-> populate_graph(r.graph, new_rule_files)]

\* Neo4jGraphPopulator.update_graph: the store afterwards and the exception
\* that leaves it
UpdateSplit(g, existing_rule_files, new_rule_files) ==
  AddNewRuleFiles(new_rule_files,
                  IF existing_rule_files # <<>>
                  THEN _update_existing_rule_files(g, existing_rule_files)
                  ELSE [raised |-> "", graph |-> g])
update_graph(g, rule_files) ==
  UpdateSplit(g, SplitRuleFiles(rule_files, _get_existing_rule_file_paths(g), TRUE),
              SplitRuleFiles(rule_files, _get_existing_rule_file_paths(g), FALSE))

\* ------------------------------------------------------------------ query engine
\* (query_engine/query_engine.py.  A query's rows are a set where Cypher
\* leaves their order open, and the sequences its ORDER BY allows otherwise.)

RuleKeys(g) == {NodeKey(g.rules[i]) : i \in DOMAIN g.rules}
RuleConditions(g, r) == {c \in g.conditions : <<r, c.id>> \in g.has_condition}
RuleActions(g, r) == {a \in g.actions : <<r, a.id>> \in g.has_action}
ConditionConstraints(g, c) == {con \in g.constraints : <<c.id, con.id>> \in g.has_constraint}
\* (n)-[:REFERENCES]->(cl:Class)
Referenced(g, id) == {cl \in g.classes : <<id, cl.full_name>> \in g.references}
\* (r)-[:HAS_CONDITION]->(c:Condition)-[:REFERENCES]->(cl:Class)
ConditionClasses(g, r) == UNION {Referenced(g, c.id) : c \in RuleConditions(g, r)}
\* (r)-[:HAS_ACTION]->(a:Action)-[:REFERENCES]->(cl:Class)
ActionClasses(g, r) == UNION {Referenced(g, a.id) : a \in RuleActions(g, r)}

\* the rows of find_rule_by_exact_name's query; the method returns results[0]
find_rule_by_exact_name(g, name, package) ==
  {[name |-> g.rules[i].name, package |-> g.rules[i].package,
    salience |-> g.rules[i].salience, id |-> i] : i \in
     {i \in DOMAIN g.rules :
        /\ g.rules[i].name = name
        /\ (package # None /\ package # Some(<<>>)) => g.rules[i].package = package[1]}}

RelatedRow(r, relationship_type) ==
  [name |-> r[1], package |-> r[2], relationship_type |-> relationship_type]

parent_query(g, r) ==
  {RelatedRow(p, "extends") : p \in {p \in RuleKeys(g) : <<r, p>> \in g.extends}}

depends_on_query(g, r) ==
  {RelatedRow(r2, "depends_on") : r2 \in
     {r2 \in RuleKeys(g) \ {r} : ConditionClasses(g, r) \cap ConditionClasses(g, r2) # {}}
     \cup
     {r2 \in RuleKeys(g) \ {r} : ActionClasses(g, r) \cap ConditionClasses(g, r2) # {}}}

dependent_rules_query(g, r2) ==
  {RelatedRow(r, "dependent") : r \in
     {r \in RuleKeys(g) \ {r2} : ConditionClasses(g, r) \cap ConditionClasses(g, r2) # {}}
     \cup
     {r \in RuleKeys(g) \ {r2} : ActionClasses(g, r) \cap ConditionClasses(g, r2) # {}}}

\* GraphQueryEngine.find_rule_dependencies, rule being the row that
\* find_rule_by_exact_name returned
find_rule_dependencies(g, rule) ==
  [rule |-> rule,
   parents |-> parent_query(g, <<rule.name, rule.package>>),
   depends_on |-> depends_on_query(g, <<rule.name, rule.package>>),
   dependent_rules |-> dependent_rules_query(g, <<rule.name, rule.package>>)]

\* the Condition and Action nodes of a rule: in a store of the schema the
\* paths -[:HAS_CONDITION|HAS_ACTION*1..2]-> have one hop
RuleNodes(g, r) ==
  {c.id : c \in RuleConditions(g, r)} \cup {a.id : a \in RuleActions(g, r)}

\* r1.name + ' (' + r1.package + ')'
CycleName(r) == r[1] \o <<" ", "(">> \o r[2] \o <<")">>

(* the MATCH of find_circular_dependencies: r1 and r2 meet in cl through    *)
(* the nodes n and m and in cl2 through p and q; no relationship is used    *)
(* twice in one MATCH, so n # q and m # p                                   *)
CircularMatch(g, r1, r2, cl, cl2) ==
  /\ r1 # r2
  /\ cl # cl2
  /\ \E n, q \in RuleNodes(g, r1), m, p \in RuleNodes(g, r2) :
       /\ n # q
       /\ m # p
       /\ cl \in Referenced(g, n) \cap Referenced(g, m)
       /\ cl2 \in Referenced(g, p) \cap Referenced(g, q)

\* GraphQueryEngine.find_circular_dependencies
find_circular_dependencies(g) ==
  {[cycle |-> <<CycleName(t[1]), CycleName(t[2])>>,
    from_rule |-> [name |-> t[1][1], package |-> t[1][2]],
    to_rule |-> [name |-> t[2][1], package |-> t[2][2]],
    shared_classes |-> <<t[3].name, t[4].name>>] : t \in
     {t \in RuleKeys(g) \X RuleKeys(g) \X g.classes \X g.classes :
        CircularMatch(g, t[1], t[2], t[3], t[4])}}

(* The maps find_conflicting_rules collects: a property is <<v>>, or <<>>   *)
(* for null.  An OPTIONAL MATCH that finds nothing gives one map of nulls.  *)
ConstraintMap(con) ==
  [field |-> Some(con.field), operator |-> Some(con.operator), value |-> Some(con.value)]
NullConstraintMap == [field |-> None, operator |-> None, value |-> None]
ActionMap(a) == [type |-> Some(a.type), target |-> Some(a.target), method |-> a.method]
NullActionMap == [type |-> None, target |-> None, method |-> None]

OrNull(maps, null_map) == IF maps = {} THEN {null_map} ELSE maps

RuleConstraintMaps(g, r) ==
  OrNull({ConstraintMap(con) : con \in
            UNION {ConditionConstraints(g, c) : c \in RuleConditions(g, r)}},
         NullConstraintMap)
RuleActionMaps(g, r) ==
  OrNull({ActionMap(a) : a \in RuleActions(g, r)}, NullActionMap)

\* Cypher's a = b on maps, and a IN list: "true", "false" or "null"
Eq3(a, b) ==
  IF \E k \in DOMAIN a : a[k] # None /\ b[k] # None /\ a[k] # b[k] THEN "false"
  ELSE IF \E k \in DOMAIN a : a[k] = None \/ b[k] = None THEN "null"
  ELSE "true"
In3(a, list) ==
  IF \E b \in list : Eq3(a, b) = "true" THEN "true"
  ELSE IF \E b \in list : Eq3(a, b) = "null" THEN "null"
  ELSE "false"

Abs(n) == IF n < 0 THEN 0 - n ELSE n

\* the CASE that gives salience_diff
salience_diff(s1, s2) ==
  IF s1 = None \/ s2 = None THEN 999 ELSE Abs(s1[1] - s2[1])

\* ANY(c2 IN r2_constraints WHERE c1.field = c2.field AND
\*     c1.operator <> c2.operator AND c1.value = c2.value)
Contradicts(c1, c2) ==
  /\ c1.field # None /\ c2.field # None /\ c1.field = c2.field
  /\ c1.operator # None /\ c2.operator # None /\ c1.operator # c2.operator
  /\ c1.value # None /\ c2.value # None /\ c1.value = c2.value

\* the CASE that gives conflict_type, its WHEN clauses in their order
conflict_type(r1_constraints, r2_constraints, r1_actions, r2_actions, diff) ==
  IF /\ {c \in r1_constraints : In3(c, r2_constraints) = "true"} # {}
     /\ {a \in r1_actions : In3(a, r2_actions) = "false"} # {}
     /\ diff < 20
  THEN "potential_action_conflict"
  ELSE IF /\ {c \in r1_constraints :
                c.field # None /\ \E c2 \in r2_constraints : c2.field = c.field} # {}
          /\ diff < 20
  THEN "potential_condition_overlap"
  ELSE IF {c1 \in r1_constraints : \E c2 \in r2_constraints : Contradicts(c1, c2)} # {}
  THEN "contradictory_constraints"
  ELSE IF /\ {a \in r1_actions : In3(a, r2_actions) = "true"} # {}
          /\ {c \in r1_constraints : In3(c, r2_constraints) = "false"} # {}
  THEN "redundant_rules"
  ELSE "same_fact_type"

\* the CASE of the ORDER BY
ConflictPriority(type) ==
  CASE type = "contradictory_constraints" -> 1
    [] type = "potential_action_conflict" -> 2
    [] type = "potential_condition_overlap" -> 3
    [] type = "redundant_rules" -> 4
    [] OTHER -> 5

ConflictBefore(a, b) ==
  \/ ConflictPriority(a.conflict_type) < ConflictPriority(b.conflict_type)
  \/ /\ ConflictPriority(a.conflict_type) = ConflictPriority(b.conflict_type)
     /\ a.salience_difference < b.salience_difference

\* the sequences that list the rows S as the ORDER BY may return them: no
\* row comes after one it is before
RECURSIVE ConflictOrderings(_)
ConflictOrderings(S) ==
  IF S = {} THEN {<<>>}
  ELSE UNION {{<<x>> \o q : q \in ConflictOrderings(S \ {x})} :
              x \in {x \in S : \A y \in S : ~ConflictBefore(y, x)}}

RuleInfo(r) == [name |-> r.name, package |-> r.package, salience |-> r.salience]

\* the variables of the conditions of a rule on a fact type
TypeVariables(g, r, fact_type) ==
  {c.variable : c \in {c \in RuleConditions(g, r) : c.type = fact_type}}

\* one row of the query, for the rules with ids i < j and a fact type of both
ConflictRow(g, i, j, fact_type, cons1, cons2, acts1, acts2, diff) ==
  [rule1 |-> RuleInfo(g.rules[i]), rule2 |-> RuleInfo(g.rules[j]),
   fact_type |-> fact_type,
   conflict_type |-> conflict_type(cons1, cons2, acts1, acts2, diff),
   salience_difference |-> diff,
   details |-> [rule1_variables |-> TypeVariables(g, NodeKey(g.rules[i]), fact_type),
                rule2_variables |-> TypeVariables(g, NodeKey(g.rules[j]), fact_type),
                rule1_constraints |-> cons1, rule2_constraints |-> cons2,
                rule1_actions |-> acts1, rule2_actions |-> acts2]]

\* a variant that collects the constraints of the conditions on fact_type
\* only, which C15_OneLabel must notice
ConflictRowOfType(g, i, j, fact_type) ==
  ConflictRow(g, i, j, fact_type,
              OrNull({ConstraintMap(con) : con \in
                        UNION {ConditionConstraints(g, c) : c \in
                                 {c \in RuleConditions(g, NodeKey(g.rules[i])) :
                                    c.type = fact_type}}}, NullConstraintMap),
              OrNull({ConstraintMap(con) : con \in
                        UNION {ConditionConstraints(g, c) : c \in
                                 {c \in RuleConditions(g, NodeKey(g.rules[j])) :
                                    c.type = fact_type}}}, NullConstraintMap),
              RuleActionMaps(g, NodeKey(g.rules[i])),
              RuleActionMaps(g, NodeKey(g.rules[j])),
              salience_diff(g.rules[i].salience, g.rules[j].salience))

\* the row of r1, r2 and fact_type: the OPTIONAL MATCHes that follow the
\* first WITH bind c1 and c2 anew, to every condition of r1 and of r2
ConflictRowOf(g, i, j, fact_type) ==
  ConflictRow(g, i, j, fact_type,
              RuleConstraintMaps(g, NodeKey(g.rules[i])),
              RuleConstraintMaps(g, NodeKey(g.rules[j])),
              RuleActionMaps(g, NodeKey(g.rules[i])),
              RuleActionMaps(g, NodeKey(g.rules[j])),
              salience_diff(g.rules[i].salience, g.rules[j].salience))

ConditionTypes(g, r) == {c.type : c \in RuleConditions(g, r)}

\* the rows the query keeps: WHERE conflict_type <> "same_fact_type" OR
\* salience_diff < 10
ConflictRows(g) ==
  {row \in
     {ConflictRowOf(g, t[1], t[2], t[3]) : t \in
        {t \in (DOMAIN g.rules) \X (DOMAIN g.rules) \X {c.type : c \in g.conditions} :
           /\ t[1] < t[2]
           /\ t[3] \in ConditionTypes(g, NodeKey(g.rules[t[1]]))
           /\ t[3] \in ConditionTypes(g, NodeKey(g.rules[t[2]]))}} :
     row.conflict_type # "same_fact_type" \/ row.salience_difference < 10}

(* GraphQueryEngine.find_conflicting_rules: the lists it may return.  Its   *)
(* query holds [c2.field FOR c2 IN r2_constraints], which is no list        *)
(* comprehension of Cypher: a server that rejects the query makes the       *)
(* method return [] (accepted = FALSE); accepted = TRUE reads it as the     *)
(* list of the fields of r2_constraints.                                    *)
find_conflicting_rules(g, accepted) ==
  IF accepted THEN ConflictOrderings(ConflictRows(g)) ELSE {<<>>}

\* the rules r2 <> r with an action that references a class that a condition
\* of r references (the OPTIONAL MATCHes of analyze_execution_order)
Dependencies(g, r) ==
  {r2 \in RuleKeys(g) \ {r} : ConditionClasses(g, r) \cap ActionClasses(g, r2) # {}}

\* the CASE that gives rule_type
rule_type(salience, dependency_count) ==
  IF salience # None /\ salience[1] > 50 THEN "high_priority"
  ELSE IF dependency_count = 0 THEN "entry_point"
  ELSE IF dependency_count > 3 THEN "aggregator"
  ELSE "normal"

ExecutionRow(r, dependencies) ==
  [name |-> r.name, package |-> r.package, original_salience |-> r.salience,
   effective_salience |-> IF r.salience = None THEN 0 ELSE r.salience[1],
   depends_on |-> {[name |-> d[1], package |-> d[2]] : d \in dependencies},
   dependency_count |-> Cardinality(dependencies),
   rule_type |-> rule_type(r.salience, Cardinality(dependencies))]

\* ORDER BY effective_salience DESC, dependency_count ASC
ExecutionBefore(a, b) ==
  \/ a.effective_salience > b.effective_salience
  \/ /\ a.effective_salience = b.effective_salience
     /\ a.dependency_count < b.dependency_count

RECURSIVE ExecutionOrderings(_)
ExecutionOrderings(S) ==
  IF S = {} THEN {<<>>}
  ELSE UNION {{<<x>> \o q : q \in ExecutionOrderings(S \ {x})} :
              x \in {x \in S : \A y \in S : ~ExecutionBefore(y, x)}}

\* the rows of the query: rule_names is <<>> for None, else <<names>>
ExecutionRows(g, rule_names) ==
  {ExecutionRow(g.rules[i], Dependencies(g, NodeKey(g.rules[i]))) : i \in
     {i \in DOMAIN g.rules :
        (rule_names # None /\ rule_names # Some(<<>>)) =>
          \E k \in DOMAIN rule_names[1] : rule_names[1][k] = g.rules[i].name}}

\* f"{name}:{package}"
rule_key(row) == row.name \o <<":">> \o row.package

\* the dependencies of a row that the second pass finds missing
missing_deps(result, execution_path, rule_map) ==
  {dep \in result.depends_on :
     /\ ~\E k \in DOMAIN execution_path : execution_path[k] = rule_key(dep)
     /\ rule_key(dep) \in rule_map}

\* a variant that appends every rule, ready or not, which C3_ReadyIffEarlierReady
\* must notice
ExecutionPathAlways(execution_path, key, dependencies_met) == Append(execution_path, key)
\* if dependencies_met: execution_path.append(rule_key)
ExecutionPathAfter(execution_path, key, dependencies_met) ==
  IF dependencies_met THEN Append(execution_path, key) ELSE execution_path

Processed(result, missing) ==
  [name |-> result.name, package |-> result.package,
   original_salience |-> result.original_salience,
   effective_salience |-> result.effective_salience,
   depends_on |-> result.depends_on, dependency_count |-> result.dependency_count,
   rule_type |-> result.rule_type,
   execution_status |-> IF missing = {} THEN "ready" ELSE "waiting_for_dependencies",
   missing_dependencies |-> missing]

\* the second pass of analyze_execution_order, from the i-th result on
RECURSIVE SecondPass(_, _, _, _, _)
SecondPassStep(results, i, execution_path, rule_map, processed_results, missing) ==
  SecondPass(results, i + 1,
             ExecutionPathAfter(execution_path, rule_key(results[i]), missing = {}),
             rule_map, Append(processed_results, Processed(results[i], missing)))
SecondPass(results, i, execution_path, rule_map, processed_results) ==
  IF i > Len(results) THEN processed_results
  ELSE SecondPassStep(results, i, execution_path, rule_map, processed_results,
                      missing_deps(results[i], execution_path, rule_map))

\* GraphQueryEngine.analyze_execution_order: the lists it may return
analyze_execution_order(g, rule_names) ==
  {SecondPass(results, 1, <<>>, {rule_key(results[k]) : k \in DOMAIN results}, <<>>) :
     results \in ExecutionOrderings(ExecutionRows(g, rule_names))}

\* (r)<-[:EXTENDS]-(:Rule)
Extenders(g, r) == {r2 \in RuleKeys(g) : <<r2, r>> \in g.extends}

\* MATCH (r)-[:HAS_ACTION]->(a)-[:REFERENCES]->(cl)<-[:REFERENCES]-(:Condition)
\*       <-[:HAS_CONDITION]-(:Rule) WHERE r <> r
\* (the rule at the far end has no name in the query: its WHERE compares r
\* with itself)
ClassDependents(g, r) ==
  {r2 \in RuleKeys(g) : ActionClasses(g, r) \cap ConditionClasses(g, r2) # {} /\ r # r}

\* MATCH (r)-[:HAS_CONDITION]->(c) WHERE NOT EXISTS { MATCH (c)-[:REFERENCES]->(:Class) }
UnreferencedConditions(g, r) == {c \in RuleConditions(g, r) : Referenced(g, c.id) = {}}

\* (r)<-[:DEPENDS_ON]-(:Rule): no writer of the store creates a DEPENDS_ON
\* relationship
DependsOnSources(g, r) == {}

\* GraphQueryEngine.find_unused_rules: the rows of its query
find_unused_rules(g) ==
  {[name |-> g.rules[i].name, package |-> g.rules[i].package,
    salience |-> g.rules[i].salience, id |-> i, reason |-> "unused"] : i \in
     {i \in DOMAIN g.rules :
        /\ Extenders(g, NodeKey(g.rules[i])) = {}
        /\ ClassDependents(g, NodeKey(g.rules[i])) = {}
        /\ UnreferencedConditions(g, NodeKey(g.rules[i])) = {}
        /\ DependsOnSources(g, NodeKey(g.rules[i])) = {}}}

\* the default of complexity_threshold
DefaultThreshold == 5

\* the counts of find_complex_rules
condition_count(g, r) == Cardinality(RuleConditions(g, r))
constraint_count(g, r) ==
  Cardinality(UNION {ConditionConstraints(g, c) : c \in RuleConditions(g, r)})
action_count(g, r) == Cardinality(RuleActions(g, r))
\* count(DISTINCT cl) over (r)-[:HAS_CONDITION|HAS_ACTION]->(n)-[:REFERENCES]->(cl)
class_count(g, r) == Cardinality(ConditionClasses(g, r) \cup ActionClasses(g, r))

\* a variant that leaves the referenced classes out of the sum, which
\* C14_ComplexRules must notice
total_complexity_counts(conditions, constraints, actions, classes) ==
  conditions + constraints + actions
\* condition_count + constraint_count + action_count + class_count
total_complexity(conditions, constraints, actions, classes) ==
  conditions + constraints + actions + classes

ComplexRow(g, i, conditions, constraints, actions, classes) ==
  [name |-> g.rules[i].name, package |-> g.rules[i].package,
   salience |-> g.rules[i].salience, id |-> i,
   condition_count |-> conditions, constraint_count |-> constraints,
   action_count |-> actions, class_count |-> classes,
   total_complexity |-> total_complexity(conditions, constraints, actions, classes)]

\* the rows the query keeps: WHERE total_complexity >= $complexity_threshold
ComplexRows(g, complexity_threshold) ==
  {row \in
     {ComplexRow(g, i, condition_count(g, NodeKey(g.rules[i])),
                 constraint_count(g, NodeKey(g.rules[i])),
                 action_count(g, NodeKey(g.rules[i])),
                 class_count(g, NodeKey(g.rules[i]))) : i \in DOMAIN g.rules} :
     row.total_complexity >= complexity_threshold}

\* ORDER BY total_complexity DESC: the sequences it may return
RECURSIVE ComplexOrderings(_)
ComplexOrderings(S) ==
  IF S = {} THEN {<<>>}
  ELSE UNION {{<<x>> \o q : q \in ComplexOrderings(S \ {x})} :
              x \in {x \in S : \A y \in S : y.total_complexity <= x.total_complexity}}

\* GraphQueryEngine.find_complex_rules: the lists it may return
find_complex_rules(g, complexity_threshold) ==
  ComplexOrderings(ComplexRows(g, complexity_threshold))

\* ------------------------------------------------------------------ input texts
\* A file text is an optional package line followed by rule blocks.  Each
\* block is listed with the rule's name and the marker it lacks ("" for a
\* well-formed rule).

\* rule "A" |   when |     $c : Customer(age > 18) |   then |     $c.approve(); | end
T_OkA ==
  <<"r","u","l","e"," ","\"","A","\"","\n"," "," ","w","h","e","n","\n"," "," "," "," ","$","c"," ",":"," ","C","u","s","t","o","m","e","r","(","a","g","e"," ",">"," ","1","8",")","\n"," "," ","t","h","e","n","\n"," "," "," "," ","$","c",".","a","p","p","r","o","v","e","(",")",";","\n","e","n","d">>
\* rule "B" salience 10 |   when |     $o : Order(status == "NEW") |   then |     $o.ship(); | end
T_OkB ==
  <<"r","u","l","e"," ","\"","B","\""," ","s","a","l","i","e","n","c","e"," ","1","0","\n"," "," ","w","h","e","n","\n"," "," "," "," ","$","o"," ",":"," ","O","r","d","e","r","(","s","t","a","t","u","s"," ","=","="," ","\"","N","E","W","\"",")","\n"," "," ","t","h","e","n","\n"," "," "," "," ","$","o",".","s","h","i","p","(",")",";","\n","e","n","d">>
\* rule "W" |   then |     $c.approve(); | end
T_NoWhen ==
  <<"r","u","l","e"," ","\"","W","\"","\n"," "," ","t","h","e","n","\n"," "," "," "," ","$","c",".","a","p","p","r","o","v","e","(",")",";","\n","e","n","d">>
\* rule "T" |   when |     $c : Customer() | end
T_NoThen ==
  <<"r","u","l","e"," ","\"","T","\"","\n"," "," ","w","h","e","n","\n"," "," "," "," ","$","c"," ",":"," ","C","u","s","t","o","m","e","r","(",")","\n","e","n","d">>
\* rule "E" |   when |     $c : Customer() |   then |     $c.approve();
T_NoEnd ==
  <<"r","u","l","e"," ","\"","E","\"","\n"," "," ","w","h","e","n","\n"," "," "," "," ","$","c"," ",":"," ","C","u","s","t","o","m","e","r","(",")","\n"," "," ","t","h","e","n","\n"," "," "," "," ","$","c",".","a","p","p","r","o","v","e","(",")",";">>
\* rule "X" extends "A" |   when |     $c : Customer() |   then |     $c.approve();
T_NoEndExt ==
  <<"r","u","l","e"," ","\"","X","\""," ","e","x","t","e","n","d","s"," ","\"","A","\"","\n"," "," ","w","h","e","n","\n"," "," "," "," ","$","c"," ",":"," ","C","u","s","t","o","m","e","r","(",")","\n"," "," ","t","h","e","n","\n"," "," "," "," ","$","c",".","a","p","p","r","o","v","e","(",")",";">>
\* rule "R1" when $c : Customer(age > 18) then $c.approve(); end
T_ScenarioA ==
  <<"r","u","l","e"," ","\"","R","1","\""," ","w","h","e","n"," ","$","c"," ",":"," ","C","u","s","t","o","m","e","r","(","a","g","e"," ",">"," ","1","8",")"," ","t","h","e","n"," ","$","c",".","a","p","p","r","o","v","e","(",")",";"," ","e","n","d">>
\* rule "R2" when $c: Customer() end
T_ScenarioB ==
  <<"r","u","l","e"," ","\"","R","2","\""," ","w","h","e","n"," ","$","c",":"," ","C","u","s","t","o","m","e","r","(",")"," ","e","n","d">>
T_Package == <<"p","a","c","k","a","g","e"," ","p",";">>

BlockKinds == {"OkA", "OkB", "NoWhen", "NoThen", "NoEnd", "NoEndExt", "ScenarioA", "ScenarioB"}
BlockText(k) ==
  CASE k = "OkA" -> T_OkA
    [] k = "OkB" -> T_OkB
    [] k = "NoWhen" -> T_NoWhen
    [] k = "NoThen" -> T_NoThen
    [] k = "NoEnd" -> T_NoEnd
    [] k = "NoEndExt" -> T_NoEndExt
    [] k = "ScenarioA" -> T_ScenarioA
    [] k = "ScenarioB" -> T_ScenarioB
BlockName(k) ==
  CASE k = "OkA" -> <<"A">>
    [] k = "OkB" -> <<"B">>
    [] k = "NoWhen" -> <<"W">>
    [] k = "NoThen" -> <<"T">>
    [] k = "NoEnd" -> <<"E">>
    [] k = "NoEndExt" -> <<"X">>
    [] k = "ScenarioA" -> <<"R","1">>
    [] k = "ScenarioB" -> <<"R","2">>
BlockLacks(k) ==
  CASE k = "OkA" -> ""
    [] k = "OkB" -> ""
    [] k = "NoWhen" -> "when"
    [] k = "NoThen" -> "then"
    [] k = "NoEnd" -> "end"
    [] k = "NoEndExt" -> "end"
    [] k = "ScenarioA" -> ""
    [] k = "ScenarioB" -> "then"
WellFormed(k) == BlockLacks(k) = ""

\* the longest file text, in rule blocks
MaxBlocks == 2

RECURSIVE SeqsUpTo(_, _)
SeqsUpTo(S, n) ==
  IF n = 0 THEN {<<>>}
  ELSE LET shorter == SeqsUpTo(S, n - 1)
       IN shorter \cup {Append(q, x) : q \in {t \in shorter : Len(t) = n - 1}, x \in S}

BlockSeqs == SeqsUpTo(BlockKinds, MaxBlocks) \ {<<>>}

RECURSIVE BlockTexts(_)
BlockTexts(parts) ==
  IF parts = <<>> THEN <<>> ELSE <<BlockText(Head(parts))>> \o BlockTexts(Tail(parts))

\* the text of a file: its package line, if any, then its blocks, one per line group
FileText(has_package, parts) ==
  Join((IF has_package THEN <<T_Package>> ELSE <<>>) \o BlockTexts(parts), <<NL>>)

\* a readable file on disk; has_package and parts describe how its text was built
File(path, has_package, parts) ==
  [path |-> path, exists |-> TRUE, readable |-> TRUE,
   content |-> FileText(has_package, parts), has_package |-> has_package, parts |-> parts]

RuleTexts == {File(<<"a", ".", "d", "r", "l">>, hp, parts) : hp \in BOOLEAN, parts \in BlockSeqs}

\* Rule texts with one condition pattern, $c : Customer(age OP 18), and a
\* then-part of one line:  rule "G" |   when |     $c : Customer(age OP 18) |
\*   then |     STATEMENTS | end
T_GenWhen ==
  <<"r","u","l","e"," ","\"","G","\"","\n"," "," ","w","h","e","n","\n"," "," "," "," ","$","c"," ",":"," ","C","u","s","t","o","m","e","r","(","a","g","e"," ">>
T_GenThen ==
  <<" ","1","8",")","\n"," "," ","t","h","e","n","\n"," "," "," "," ">>
T_GenEnd == <<"\n","e","n","d">>

\* the operators written between age and 18
GenOperators ==
  {<<"=">>, S_eqeq, S_neq, <<"<">>, S_le, <<">">>, S_ge, S_matches,
   <<"<", ">">>, <<"=", ">">>, <<"=", "<">>, <<"=", "=", "=">>}

\* the then-parts, and the number of statements each holds
\*   one: $c.approve();
\*   two: $c.setAge(1); $c.approve();
\*   quoted: $c.log("a;b");
\*   assign: total = 1;
\*   plain: retract;
StatementKinds == {"one", "two", "quoted", "assign", "plain"}
StatementText(k) ==
  CASE k = "one" -> <<"$","c",".","a","p","p","r","o","v","e","(",")",";">>
    [] k = "two" -> <<"$","c",".","s","e","t","A","g","e","(","1",")",";"," ","$","c",".","a","p","p","r","o","v","e","(",")",";">>
    [] k = "quoted" -> <<"$","c",".","l","o","g","(","\"","a",";","b","\"",")",";">>
    [] k = "assign" -> <<"t","o","t","a","l"," ","="," ","1",";">>
    [] k = "plain" -> <<"r","e","t","r","a","c","t",";">>
StatementCount(k) ==
  CASE k = "one" -> 1
    [] k = "two" -> 2
    [] k = "quoted" -> 1
    [] k = "assign" -> 1
    [] k = "plain" -> 1

GenText(operator, k) ==
  T_GenWhen \o operator \o T_GenThen \o StatementText(k) \o T_GenEnd

\* a readable file holding one generated rule; parts keeps the operator and
\* the kind of then-part it was built from
GenFile(operator, k) ==
  [path |-> <<"g", ".", "d", "r", "l">>, exists |-> TRUE, readable |-> TRUE,
   content |-> GenText(operator, k), has_package |-> FALSE, parts |-> <<operator, k>>]

GenTexts == {GenFile(operator, k) : operator \in GenOperators, k \in StatementKinds}

\* Rule texts with a header line and a then-section of statement lines, each
\* statement on its own line and closed by a semicolon:
\*   package p; | HEADER |   when |     $c : Customer(age > 18) |   then |
\*       LINE | ... | end
HeaderKinds == {"plain", "salience", "badsalience", "extends", "weekend"}
\*   plain: rule "G"
\*   salience: rule "G" salience 10
\*   badsalience: rule "G" salience abc
\*   extends: rule "G" extends "A"
\*   weekend: rule "Weekend"
HeaderText(h) ==
  CASE h = "plain" -> <<"r","u","l","e"," ","\"","G","\"">>
    [] h = "salience" -> <<"r","u","l","e"," ","\"","G","\""," ","s","a","l","i","e","n","c","e"," ","1","0">>
    [] h = "badsalience" -> <<"r","u","l","e"," ","\"","G","\""," ","s","a","l","i","e","n","c","e"," ","a","b","c">>
    [] h = "extends" -> <<"r","u","l","e"," ","\"","G","\""," ","e","x","t","e","n","d","s"," ","\"","A","\"">>
    [] h = "weekend" -> <<"r","u","l","e"," ","\"","W","e","e","k","e","n","d","\"">>
LineKinds == {"approve", "assign", "endDate", "send"}
\*   approve: $c.approve();
\*   assign: total = 1;
\*   endDate: endDate = x;
\*   send: send($c);
LineText(k) ==
  CASE k = "approve" -> <<"$","c",".","a","p","p","r","o","v","e","(",")",";">>
    [] k = "assign" -> <<"t","o","t","a","l"," ","="," ","1",";">>
    [] k = "endDate" -> <<"e","n","d","D","a","t","e"," ","="," ","x",";">>
    [] k = "send" -> <<"s","e","n","d","(","$","c",")",";">>
T_LinesWhen ==
  <<" "," ","w","h","e","n","\n"," "," "," "," ","$","c"," ",":"," ","C","u","s","t","o","m","e","r","(","a","g","e"," ",">"," ","1","8",")","\n"," "," ","t","h","e","n">>
T_Indent == <<" "," "," "," ">>

\* the most statement lines in a then-section
MaxLines == 2
LineSeqs == SeqsUpTo(LineKinds, MaxLines) \ {<<>>}

\* the statement lines, indented, one per line
ThenLines(ks) == Join([i \in 1..Len(ks) |-> T_Indent \o LineText(ks[i])], <<NL>>)

\* the text of the rule, from its header line to its end line
LinesRuleText(h, ks) ==
  Join(<<HeaderText(h), T_LinesWhen, ThenLines(ks), S_end>>, <<NL>>)

\* a readable file holding the package line and one such rule; parts keeps
\* the kind of header and the kinds of the statement lines
LinesFile(h, ks) ==
  [path |-> <<"l", ".", "d", "r", "l">>, exists |-> TRUE, readable |-> TRUE,
   content |-> Join(<<T_Package, LinesRuleText(h, ks)>>, <<NL>>), has_package |-> TRUE,
   parts |-> <<h>> \o ks]

LinesTexts == {LinesFile(h, ks) : h \in HeaderKinds, ks \in LineSeqs}

\* ------------------------------------------------------------------ function texts

\* the function declarations of a file: well-formed at the start of a line,
\* indented, with parameters, on one line, or with a brace missing
FunctionKinds == {"good", "indented", "params", "oneline", "noopen", "noclose"}
WellFormedKinds == {"good", "indented", "params", "oneline"}
MaxFunctions == 2

T_FunctionInt == <<"f", "u", "n", "c", "t", "i", "o", "n", " ", "i", "n", "t", " ">>
T_FunctionString == <<"f", "u", "n", "c", "t", "i", "o", "n", " ", "S", "t", "r", "i", "n", "g", " ">>
T_Return == <<" ", " ", "r", "e", "t", "u", "r", "n", " ", "1", ";">>

\* the name of the i-th function of a file
FunctionName(i) == <<"f", CASE i = 1 -> "1" [] i = 2 -> "2" [] i = 3 -> "3" [] OTHER -> "9">>

FunctionText(k, name) ==
  CASE k = "good" ->
         T_FunctionInt \o name \o <<"(", ")", " ", "{", NL>> \o T_Return \o <<NL, "}">>
    [] k = "indented" ->
         <<" ", " ">> \o T_FunctionInt \o name \o <<"(", ")", " ", "{", NL, " ", " ">> \o T_Return \o <<NL, " ", " ", "}">>
    [] k = "params" ->
         T_FunctionString \o name \o <<"(", "i", "n", "t", " ", "a", ",", " ", "S", "t", "r", "i", "n", "g", " ", "b", ")", " ", "{", NL, " ", " ", "r", "e", "t", "u", "r", "n", " ", "b", ";", NL, "}">>
    [] k = "oneline" ->
         T_FunctionInt \o name \o <<"(", ")", " ", "{", " ", "r", "e", "t", "u", "r", "n", " ", "1", ";", " ", "}">>
    [] k = "noopen" ->
         T_FunctionInt \o name \o <<"(", ")", NL>> \o T_Return \o <<NL, "}">>
    [] k = "noclose" ->
         T_FunctionInt \o name \o <<"(", ")", " ", "{", NL>> \o T_Return

FunctionTextsOf(ks) == [i \in DOMAIN ks |-> FunctionText(ks[i], FunctionName(i))]

\* a readable file holding the package line and the declarations ks
FunctionFile(ks) ==
  [path |-> <<"u", ".", "d", "r", "l">>, exists |-> TRUE, readable |-> TRUE,
   content |-> Join(<<T_Package>> \o FunctionTextsOf(ks), <<NL>>), has_package |-> TRUE,
   parts |-> ks]

FunctionTexts == {FunctionFile(ks) : ks \in SeqsUpTo(FunctionKinds, MaxFunctions)}

\* the path of the i-th file
PathOf(i) == <<"f", CASE i = 1 -> "1" [] i = 2 -> "2" [] i = 3 -> "3" [] OTHER -> "9",
               ".", "d", "r", "l">>

\* ------------------------------------------------------------------ graph inputs
\* (RuleFiles as the parser returns them, handed to populate_graph)

N_shop == <<"s", "h", "o", "p">>
N_Order == <<"O", "r", "d", "e", "r">>
N_Customer == <<"C", "u", "s", "t", "o", "m", "e", "r">>
N_Invoice == <<"I", "n", "v", "o", "i", "c", "e">>
N_Logger == <<"L", "o", "g", "g", "e", "r">>
N_logger == <<"l", "o", "g", "g", "e", "r">>
N_status == <<"s", "t", "a", "t", "u", "s">>
N_age == <<"a", "g", "e">>
N_NEW == <<"N", "E", "W">>
N_18 == <<"1", "8">>
N_o == <<"$", "o">>
N_c == <<"$", "c">>
N_Base == <<"B", "a", "s", "e">>
N_Child == <<"C", "h", "i", "l", "d">>
N_Log == <<"L", "o", "g">>
N_Orphan == <<"O", "r", "p", "h", "a", "n">>
N_Missing == <<"M", "i", "s", "s", "i", "n", "g">>
N_approve == <<"a", "p", "p", "r", "o", "v", "e">>
N_reject == <<"r", "e", "j", "e", "c", "t">>
N_audit == <<"a", "u", "d", "i", "t">>
N_upgrade == <<"u", "p", "g", "r", "a", "d", "e">>
N_ship == <<"s", "h", "i", "p">>
N_notify == <<"n", "o", "t", "i", "f", "y">>
N_info == <<"i", "n", "f", "o">>
N_process == <<"p", "r", "o", "c", "e", "s", "s">>
N_NewOrder == <<"N", "e", "w", "O", "r", "d", "e", "r">>
N_OtherOrder == <<"O", "t", "h", "e", "r", "O", "r", "d", "e", "r">>
N_Audit == <<"A", "u", "d", "i", "t">>
N_Vip == <<"V", "i", "p">>
N_Ship == <<"S", "h", "i", "p">>
N_Notify == <<"N", "o", "t", "i", "f", "y">>
N_Bill == <<"B", "i", "l", "l">>
N_Pay == <<"P", "a", "y">>
N_Review == <<"R", "e", "v", "i", "e", "w">>
N_bill == <<"b", "i", "l", "l">>
N_pay == <<"p", "a", "y">>
N_i == <<"$", "i">>

\* a rule with one condition, of one constraint at most, and one method call
SimpleRule(name, extends, salience, variable, type, constraints, target, method) ==
  Rule(name, extends, salience, <<Condition(variable, type, constraints)>>,
       <<Action("method_call", target, Some(method), <<>>)>>)

\* the rules of the corpora handed to populate_graph
BuildRuleNames == {"Base", "Child", "Log", "Orphan"}
BuildRule(k) ==
  CASE k = "Base" ->
         SimpleRule(N_Base, None, None, N_o, N_Order,
                    <<Constraint(N_status, S_eqeq, N_NEW)>>, N_o, N_approve)
    [] k = "Child" ->
         SimpleRule(N_Child, Some(N_Base), Some(10), N_c, N_Customer, <<>>,
                    N_Order, N_process)
    [] k = "Log" ->
         SimpleRule(N_Log, None, None, <<"$", "i">>, N_Invoice, <<>>, N_logger, N_info)
    [] k = "Orphan" ->
         SimpleRule(N_Orphan, Some(N_Missing), Some(5), N_o, N_Order, <<>>, N_o, N_reject)

\* the most rules in a corpus
MaxCorpusRules == 3

\* the sequences without repetition of at most n elements of S
DistinctSeqs(S, n) ==
  {q \in SeqsUpTo(S, n) : \A i, j \in DOMAIN q : q[i] = q[j] => i = j}

RECURSIVE BuildRules(_)
BuildRules(ks) ==
  IF ks = <<>> THEN <<>> ELSE <<BuildRule(Head(ks))>> \o BuildRules(Tail(ks))

ShopImports == <<Import(N_shop, N_Order), Import(N_shop, N_Customer)>>
ShopGlobals == <<Global(N_Logger, N_logger)>>

\* one file of a corpus: with_imports tells whether it imports the fact types
\* and declares the global
CorpusFile(i, with_imports, ks) ==
  RuleFile(PathOf(i), N_shop,
           IF with_imports THEN ShopImports ELSE <<>>,
           IF with_imports THEN ShopGlobals ELSE <<>>,
           BuildRules(ks))

(* the corpora: the rules ks, in their order, split after the k-th into a   *)
(* first and a second file (one file when k is their number)                *)
Corpus(ks, k, with_imports) ==
  IF k = Len(ks)
  THEN <<CorpusFile(1, with_imports, ks)>>
  ELSE <<CorpusFile(1, with_imports, SubSeq(ks, 1, k)),
         CorpusFile(2, with_imports, SubSeq(ks, k + 1, Len(ks)))>>

Corpora ==
  {Corpus(ks, Min(k, Len(ks)), wi) : ks \in DistinctSeqs(BuildRuleNames, MaxCorpusRules) \ {<<>>},
                       k \in 0..MaxCorpusRules, wi \in BOOLEAN}

\* the rules of the stores the query engine reads.  populate_graph writes no
\* (:Action)-[:REFERENCES]->(:Class) relationship, which the queries of the
\* engine follow; the stores hold them as another writer of the schema puts
\* them: refs names the classes the action of the rule references.
StoreRuleNames ==
  {"NewOrder", "OtherOrder", "Audit", "Vip", "Ship", "Notify", "Bill", "Pay", "Review"}
StoreRule(k) ==
  CASE k = "NewOrder" ->
         SimpleRule(N_NewOrder, None, Some(10), N_o, N_Order,
                    <<Constraint(N_status, S_eqeq, N_NEW)>>, N_o, N_approve)
    [] k = "OtherOrder" ->
         SimpleRule(N_OtherOrder, None, Some(15), N_o, N_Order,
                    <<Constraint(N_status, S_neq, N_NEW)>>, N_o, N_reject)
    [] k = "Audit" ->
         SimpleRule(N_Audit, None, Some(20), N_o, N_Order,
                    <<Constraint(N_status, S_eqeq, N_NEW)>>, N_o, N_audit)
    [] k = "Vip" ->
         SimpleRule(N_Vip, None, None, N_c, N_Customer,
                    <<Constraint(N_age, <<">">>, N_18)>>, N_c, N_upgrade)
    [] k = "Ship" ->
         SimpleRule(N_Ship, None, Some(20), N_c, N_Customer,
                    <<Constraint(N_age, <<">">>, N_18)>>, N_c, N_ship)
    [] k = "Notify" ->
         SimpleRule(N_Notify, None, None, N_o, N_Order,
                    <<Constraint(N_status, S_neq, N_NEW)>>, N_o, N_notify)
    \* two conditions, the second on a type that no file imports
    [] k = "Bill" ->
         Rule(N_Bill, None, Some(10),
              <<Condition(N_o, N_Order, <<Constraint(N_status, S_eqeq, N_NEW)>>),
                Condition(N_i, N_Invoice, <<>>)>>,
              <<Action("method_call", N_i, Some(N_bill), <<>>)>>)
    [] k = "Pay" ->
         Rule(N_Pay, Some(N_Bill), Some(12),
              <<Condition(N_o, N_Order, <<Constraint(N_status, S_neq, N_NEW)>>),
                Condition(N_i, N_Invoice, <<>>)>>,
              <<Action("method_call", N_i, Some(N_pay), <<>>)>>)
    \* two actions, the first of them the action of NewOrder
    [] k = "Review" ->
         Rule(N_Review, None, Some(12),
              <<Condition(N_o, N_Order, <<Constraint(N_status, S_eqeq, N_NEW)>>)>>,
              <<Action("method_call", N_o, Some(N_approve), <<>>),
                Action("method_call", N_o, Some(N_audit), <<>>)>>)
StoreRefs(k) ==
  CASE k = "NewOrder" -> {N_Order}
    [] k = "OtherOrder" -> {N_Order}
    [] k = "Audit" -> {}
    [] k = "Vip" -> {}
    [] k = "Ship" -> {N_Order}
    [] k = "Notify" -> {N_Customer}
    [] k = "Bill" -> {}
    [] k = "Pay" -> {N_Customer}
    [] k = "Review" -> {}

\* the most rules in a store
MaxStoreRules == 3

RECURSIVE StoreRules(_)
StoreRules(ks) ==
  IF ks = <<>> THEN <<>> ELSE <<StoreRule(Head(ks))>> \o StoreRules(Tail(ks))

StoreFile(ks) == RuleFile(PathOf(1), N_shop, ShopImports, ShopGlobals, StoreRules(ks))

\* the (:Action)-[:REFERENCES]->(:Class) relationships of the store of ks
ActionReferences(ks) ==
  UNION {{<<action_id([file |-> StoreFile(ks), rule |-> StoreRule(ks[i])], 0),
            full_name(Import(N_shop, cn))>> : cn \in StoreRefs(ks[i])} : i \in DOMAIN ks}

\* the store: what populate_graph writes for the rules ks, created in that
\* order, and the references of their actions
WithReferences(g, refs) == [g EXCEPT !.references = @ \cup refs]
Store(ks) == WithReferences(populate_graph(EmptyGraph, <<StoreFile(ks)>>), ActionReferences(ks))

Stores == {Store(ks) : ks \in DistinctSeqs(StoreRuleNames, MaxStoreRules) \ {<<>>}}

\* ------------------------------------------------------------------ state

VARIABLES
  file,        \* the file handed to a top-level parse_file
  dir,         \* the files parse_directory's glob returns, in order
  eh,          \* DroolsParser.error_handler
  pc,          \* where the caller is
  ret,         \* what the last call returned: [raised, value]
  dir_i,       \* parse_directory: how many of the files the loop has done
  rule_files,  \* parse_directory: the list it is building
  recorded,    \* every diagnostic handed to handle_error since the call began
  corpus,      \* the RuleFiles handed to populate_graph
  graph        \* the Neo4j store

vars == <<file, dir, eh, pc, ret, dir_i, rule_files, recorded, corpus, graph>>

NoReturn == [raised |-> "", value |-> None]
NoFile == [path |-> <<>>, exists |-> FALSE, readable |-> FALSE, content |-> <<>>,
           has_package |-> FALSE, parts |-> <<>>]

\* ------------------------------------------------------------------ parse_file

\* the parser after __init__, about to parse one of the texts
InitParse ==
  /\ file \in RuleTexts
  /\ dir = <<>>
  /\ eh = EmptyHandler
  /\ pc = "idle"
  /\ ret = NoReturn
  /\ dir_i = 0
  /\ rule_files = <<>>
  /\ recorded = <<>>
  /\ corpus = <<>>
  /\ graph = EmptyGraph

\* a top-level call of DroolsParser.parse_file
ParseFileReturns(r) ==
  /\ eh' = r.eh
  /\ ret' = [raised |-> r.raised, value |-> r.rule_file]
  /\ recorded' = r.eh.errors

ParseFile ==
  /\ pc = "idle"
  /\ ParseFileReturns(parse_file(file, eh))
  /\ pc' = "parsed"
  /\ UNCHANGED <<file, dir, dir_i, rule_files, corpus, graph>>

\* the next call of parse_file on the same file with the same parser: the
\* RuleFile of the call before is kept in rule_files, every diagnostic
\* recorded so far in recorded
ParseFileAgainReturns(r) ==
  /\ eh' = r.eh
  /\ ret' = [raised |-> r.raised, value |-> r.rule_file]
  /\ recorded' = recorded \o r.eh.errors
  /\ rule_files' = rule_files \o ret.value

ParseFileAgain ==
  /\ pc = "parsed"
  /\ ParseFileAgainReturns(parse_file(file, eh))
  /\ pc' = "reparsed"
  /\ UNCHANGED <<file, dir, dir_i, corpus, graph>>

NextParse == ParseFile \/ ParseFileAgain

SpecParse == InitParse /\ [][NextParse]_vars

\* the parser after __init__, about to parse one of the generated texts
InitGen ==
  /\ file \in GenTexts
  /\ dir = <<>>
  /\ eh = EmptyHandler
  /\ pc = "idle"
  /\ ret = NoReturn
  /\ dir_i = 0
  /\ rule_files = <<>>
  /\ recorded = <<>>
  /\ corpus = <<>>
  /\ graph = EmptyGraph

SpecGen == InitGen /\ [][NextParse]_vars

\* the parser after __init__, about to parse one of the texts with a header
\* and statement lines
InitLines ==
  /\ file \in LinesTexts
  /\ dir = <<>>
  /\ eh = EmptyHandler
  /\ pc = "idle"
  /\ ret = NoReturn
  /\ dir_i = 0
  /\ rule_files = <<>>
  /\ recorded = <<>>
  /\ corpus = <<>>
  /\ graph = EmptyGraph

SpecLines == InitLines /\ [][NextParse]_vars

\* ------------------------------------------------------------------ parse_file, functions

InitFunctions ==
  /\ file \in FunctionTexts
  /\ dir = <<>>
  /\ eh = EmptyHandler
  /\ pc = "idle"
  /\ ret = NoReturn
  /\ dir_i = 0
  /\ rule_files = <<>>
  /\ recorded = <<>>
  /\ corpus = <<>>
  /\ graph = EmptyGraph

ParseFunctionFile ==
  /\ pc = "idle"
  /\ ParseFileReturns(parse_file_functions(file, eh))
  /\ pc' = "parsed"
  /\ UNCHANGED <<file, dir, dir_i, rule_files, corpus, graph>>

\* the next call on the same file with the same parser
ParseFunctionFileAgain ==
  /\ pc = "parsed"
  /\ ParseFileAgainReturns(parse_file_functions(file, eh))
  /\ pc' = "reparsed"
  /\ UNCHANGED <<file, dir, dir_i, corpus, graph>>

NextFunctions == ParseFunctionFile \/ ParseFunctionFileAgain

SpecFunctions == InitFunctions /\ [][NextFunctions]_vars

\* ------------------------------------------------------------------ the collector alone

\* a caller of ParserErrorHandler that records, resets and reads the summary in
\* any order
MaxCalls == 3

\* what the caller hands to handle_error: known categories and one that is
\* not a key of error_counts
CollectorDiagnostics ==
  {ErrorDetails(t, <<"m">>, None, None, None, TRUE, "ValueError") :
     t \in {"rule", "function", "import"}}

InitCollector ==
  /\ file = NoFile
  /\ dir = <<>>
  /\ eh = EmptyHandler
  /\ pc = "idle"
  /\ ret = NoReturn
  /\ dir_i = 0
  /\ rule_files = <<>>
  /\ recorded = <<>>
  /\ corpus = <<>>
  /\ graph = EmptyGraph

HandleError ==
  /\ Len(recorded) < MaxCalls
  /\ \E d \in CollectorDiagnostics :
       /\ eh' = handle_error(eh, d)
       /\ recorded' = Append(recorded, d)
  /\ pc' = "recording"
  /\ UNCHANGED <<file, dir, ret, dir_i, rule_files, corpus, graph>>

ResetCounts ==
  /\ eh' = reset_counts(eh)
  /\ recorded' = <<>>
  /\ pc' = "reset"
  /\ UNCHANGED <<file, dir, ret, dir_i, rule_files, corpus, graph>>

GetErrorSummary ==
  /\ ret' = [raised |-> "", value |-> Some(get_error_summary(eh))]
  /\ UNCHANGED <<file, dir, eh, pc, dir_i, rule_files, recorded, corpus, graph>>

NextCollector == HandleError \/ ResetCounts \/ GetErrorSummary

SpecCollector == InitCollector /\ [][NextCollector]_vars

\* ------------------------------------------------------------------ parse_directory

\* the kinds of file a directory of the model holds
FileKinds == {"valid", "nopkg", "badrule", "unreadable", "empty"}
DirFile(path, kind) ==
  CASE kind = "valid" -> File(path, TRUE, <<"ScenarioA">>)
    [] kind = "nopkg" -> File(path, FALSE, <<"ScenarioA">>)
    [] kind = "badrule" -> File(path, TRUE, <<"ScenarioB">>)
    [] kind = "unreadable" -> [File(path, TRUE, <<"ScenarioA">>) EXCEPT !.readable = FALSE]
    [] kind = "empty" -> [File(path, FALSE, <<>>) EXCEPT !.content = <<>>]

\* the most files in a directory
MaxFiles == 2

Directories ==
  {[i \in 1..Len(ks) |-> DirFile(PathOf(i), ks[i])] : ks \in SeqsUpTo(FileKinds, MaxFiles)}

InitDir ==
  /\ dir \in Directories
  /\ file = NoFile
  /\ eh = EmptyHandler
  /\ pc = "idle"
  /\ ret = NoReturn
  /\ dir_i = 0
  /\ rule_files = <<>>
  /\ recorded = <<>>
  /\ corpus = <<>>
  /\ graph = EmptyGraph

(* DroolsParser.parse_directory up to its loop: the error handler is reset; *)
(* with no matching file the call returns [] at once.                       *)
ParseDirectoryBegin ==
  /\ pc = "idle"
  /\ eh' = reset_counts(eh)
  /\ recorded' = <<>>
  /\ dir_i' = 0
  /\ rule_files' = <<>>
  /\ IF dir = <<>>
     THEN pc' = "dir_done" /\ ret' = [raised |-> "", value |-> Some(<<>>)]
     ELSE pc' = "dir_loop" /\ ret' = NoReturn
  /\ UNCHANGED <<file, dir, corpus, graph>>

\* the diagnostic parse_directory records for an exception out of parse_file
DirectoryError(f, raised) ==
  ErrorDetails("file", raised, Some(f.path), None, None, TRUE, raised)

\* a variant in which an exception out of parse_file ends the batch with
\* nothing, which C19_DirectoryIsolation must notice
ParseDirectoryFileStops(f, r) ==
  IF r.raised = ""
  THEN /\ rule_files' = rule_files \o r.rule_file
       /\ eh' = r.eh
       /\ recorded' = recorded \o r.eh.errors
  ELSE /\ rule_files' = <<>>
       /\ eh' = handle_error(r.eh, DirectoryError(f, r.raised))
       /\ recorded' = recorded \o r.eh.errors \o <<DirectoryError(f, r.raised)>>

(* One iteration of parse_directory's loop: parse_file on the next file     *)
(* (which resets the error handler itself); its RuleFile is appended, or    *)
(* the exception it raised is handed to the error handler.                  *)
ParseDirectoryFile(f, r) ==
  IF r.raised = ""
  THEN /\ rule_files' = rule_files \o r.rule_file
       /\ eh' = r.eh
       /\ recorded' = recorded \o r.eh.errors
  ELSE /\ rule_files' = rule_files
       /\ eh' = handle_error(r.eh, DirectoryError(f, r.raised))
       /\ recorded' = recorded \o r.eh.errors \o <<DirectoryError(f, r.raised)>>

ParseDirectoryStep ==
  /\ pc = "dir_loop"
  /\ dir_i < Len(dir)
  /\ ParseDirectoryFile(dir[dir_i + 1], parse_file(dir[dir_i + 1], eh))
  /\ dir_i' = dir_i + 1
  /\ UNCHANGED <<file, dir, pc, ret, corpus, graph>>

\* parse_directory after its loop: the list of RuleFiles is returned
ParseDirectoryEnd ==
  /\ pc = "dir_loop"
  /\ dir_i = Len(dir)
  /\ pc' = "dir_done"
  /\ ret' = [raised |-> "", value |-> Some(rule_files)]
  /\ UNCHANGED <<file, dir, eh, dir_i, rule_files, recorded, corpus, graph>>

\* the caller goes on to its next call on the same parser
NextCall ==
  /\ pc = "dir_done"
  /\ pc' = "idle"
  /\ UNCHANGED <<file, dir, eh, ret, dir_i, rule_files, recorded, corpus, graph>>

NextDir == ParseDirectoryBegin \/ ParseDirectoryStep \/ ParseDirectoryEnd \/ NextCall

SpecDir == InitDir /\ [][NextDir]_vars

\* ------------------------------------------------------------------ parse_directory with a file pattern

\* str.lower()
LowerSeq == <<"a","b","c","d","e","f","g","h","i","j","k","l","m",
              "n","o","p","q","r","s","t","u","v","w","x","y","z">>
UpperSeq == <<"A","B","C","D","E","F","G","H","I","J","K","L","M",
              "N","O","P","Q","R","S","T","U","V","W","X","Y","Z">>
LowerChar(c) ==
  IF c \in UpperChars THEN LowerSeq[CHOOSE k \in DOMAIN UpperSeq : UpperSeq[k] = c] ELSE c
Lower(s) == [i \in 1..Len(s) |-> LowerChar(s[i])]

\* the name of a file against a pattern, as Path.glob compares them: * is
\* any run of characters, ? one character, [...] one character of a set
RECURSIVE GlobMatch(_, _)
GlobClass(pattern, name, close) ==
  /\ name # <<>>
  /\ Head(name) \in {pattern[k] : k \in 2..(close - 1)}
  /\ GlobMatch(Slice(pattern, close + 1, Len(pattern)), Tail(name))
GlobMatch(pattern, name) ==
  IF pattern = <<>> THEN name = <<>>
  ELSE IF Head(pattern) = "*"
  THEN \E k \in 0..Len(name) : GlobMatch(Tail(pattern), Slice(name, k + 1, Len(name)))
  ELSE IF Head(pattern) = "?"
  THEN name # <<>> /\ GlobMatch(Tail(pattern), Tail(name))
  ELSE IF Head(pattern) = "[" /\ \E j \in 3..Len(pattern) : pattern[j] = "]"
  THEN GlobClass(pattern, name, Least({j \in 3..Len(pattern) : pattern[j] = "]"}))
  ELSE name # <<>> /\ Head(name) = Head(pattern) /\ GlobMatch(Tail(pattern), Tail(name))

\* the files of a sequence that pass a test given as their set
RECURSIVE Keep(_, _)
Keep(files, kept) ==
  IF files = <<>> THEN <<>>
  ELSE (IF Head(files) \in kept THEN <<Head(files)>> ELSE <<>>) \o Keep(Tail(files), kept)

Elements(files) == {files[i] : i \in DOMAIN files}

\* directory_path.glob(pattern), in the order the directory lists its files
matching_files(d, file_pattern) ==
  Keep(d, {f \in Elements(d) : GlobMatch(file_pattern, f.path)})

S_dot_drl == <<".", "d", "r", "l">>
\* the characters is_drools_file reads
ReadLimit == 4096

drools_identifier_patterns ==
  <<package_pattern, import_pattern, global_pattern, rule_pattern, query_pattern,
    function_pattern, declare_pattern>>

\* DroolsParser.is_drools_file: a .drl name and a Drools keyword pattern in
\* the head of the text; False when the file cannot be read
is_drools_file(f) ==
  IF ~EndsWith(Lower(f.path), S_dot_drl) THEN FALSE
  ELSE IF ~f.exists \/ ~f.readable THEN FALSE
  ELSE \E k \in DOMAIN drools_identifier_patterns :
         ReSearch(drools_identifier_patterns[k],
                  Slice(f.content, 1, Min(Len(f.content), ReadLimit))) # <<>>

P_drl == <<"*", ".", "d", "r", "l">>
P_rules == <<"*", ".", "r", "u", "l", "e", "s">>
P_dr == <<"*", ".", "[", "d", "r", "]", "*">>

\* the files parse_directory goes on to parse
valid_files(matching, file_pattern, validate_files) ==
  IF validate_files /\ file_pattern # P_drl
  THEN Keep(matching, {f \in Elements(matching) : is_drools_file(f)})
  ELSE matching

\* one pass of the loop of parse_directory, r being what parse_file gave
AfterFile(acc, f, r) ==
  IF r.raised = ""
  THEN [rule_files |-> acc.rule_files \o r.rule_file, eh |-> r.eh]
  ELSE [rule_files |-> acc.rule_files,
        eh |-> handle_error(r.eh, DirectoryError(f, r.raised))]

RECURSIVE ParseFiles(_, _)
ParseFiles(files, acc) ==
  IF files = <<>> THEN acc
  ELSE ParseFiles(Tail(files), AfterFile(acc, Head(files), parse_file(Head(files), acc.eh)))

ParseMatching(matching, file_pattern, validate_files, handler) ==
  IF matching = <<>> THEN [rule_files |-> <<>>, eh |-> handler]
  ELSE ParseFiles(valid_files(matching, file_pattern, validate_files),
                  [rule_files |-> <<>>, eh |-> handler])

\* DroolsParser.parse_directory on an existing directory, as one call
parse_directory(d, file_pattern, validate_files, eh0) ==
  ParseMatching(matching_files(d, file_pattern), file_pattern, validate_files,
                reset_counts(eh0))

\* the files of the directories: a name extension and a kind of text
S_drl == <<"d", "r", "l">>
S_rules == <<"r", "u", "l", "e", "s">>
S_txt == <<"t", "x", "t">>
PatternFileKinds ==
  {<<S_drl, "valid">>, <<S_drl, "empty">>, <<S_drl, "nopkg">>, <<S_drl, "badrule">>,
   <<S_rules, "valid">>, <<S_txt, "valid">>}
\* the path of the i-th file, with extension ext
ExtPath(i, ext) == Slice(PathOf(i), 1, 3) \o ext

PatternDirectories ==
  {[i \in 1..Len(ks) |-> DirFile(ExtPath(i, ks[i][1]), ks[i][2])] :
     ks \in SeqsUpTo(PatternFileKinds, MaxFiles)}

FilePatterns == {P_drl, P_rules, P_dr}

InitPattern ==
  /\ dir \in PatternDirectories
  /\ file = NoFile
  /\ eh = EmptyHandler
  /\ pc = "idle"
  /\ ret = NoReturn
  /\ dir_i = 0
  /\ rule_files = <<>>
  /\ recorded = <<>>
  /\ corpus = <<>>
  /\ graph = EmptyGraph

PatternReturns(file_pattern, r) ==
  /\ eh' = r.eh
  /\ rule_files' = r.rule_files
  /\ recorded' = r.eh.errors
  /\ ret' = [raised |-> "",
             value |-> Some([method |-> "parse_directory", args |-> <<file_pattern>>,
                             result |-> r.rule_files])]

\* a call parse_directory(dir, file_pattern=P), validate_files left at its
\* default
ParseDirectoryPattern ==
  /\ pc = "idle"
  /\ \E file_pattern \in FilePatterns :
       PatternReturns(file_pattern, parse_directory(dir, file_pattern, TRUE, eh))
  /\ pc' = "answered"
  /\ UNCHANGED <<file, dir, dir_i, corpus, graph>>

NextPattern == ParseDirectoryPattern

SpecPattern == InitPattern /\ [][NextPattern]_vars

\* ------------------------------------------------------------------ populate_graph

\* an empty store and a corpus to put into it
InitBuild ==
  /\ corpus \in Corpora
  /\ graph = EmptyGraph
  /\ file = NoFile
  /\ dir = <<>>
  /\ eh = EmptyHandler
  /\ pc = "idle"
  /\ ret = NoReturn
  /\ dir_i = 0
  /\ rule_files = <<>>
  /\ recorded = <<>>

\* a call of Neo4jGraphPopulator.populate_graph
PopulateGraph ==
  /\ pc = "idle"
  /\ graph' = populate_graph(graph, corpus)
  /\ pc' = "populated"
  /\ UNCHANGED <<file, dir, eh, ret, dir_i, rule_files, recorded, corpus>>

NextBuild == PopulateGraph

SpecBuild == InitBuild /\ [][NextBuild]_vars

\* ------------------------------------------------------------------ update_graph

\* the most rules in a version of a file
MaxVersionRules == 2

\* the versions of a file: its rules, in their order
Versions == DistinctSeqs(BuildRuleNames, MaxVersionRules)

(* a store populated with one file, and the re-parsed file f1 handed to     *)
(* update_graph: rule_files keeps what the store was populated with, at the *)
(* path of f1 or at another path                                            *)
InitUpdate ==
  /\ rule_files \in {<<CorpusFile(i, TRUE, ks)>> : i \in {1, 2}, ks \in Versions}
  /\ graph = populate_graph(EmptyGraph, rule_files)
  /\ corpus \in {<<CorpusFile(1, TRUE, ks)>> : ks \in Versions}
  /\ file = NoFile
  /\ dir = <<>>
  /\ eh = EmptyHandler
  /\ pc = "idle"
  /\ ret = NoReturn
  /\ dir_i = 0
  /\ recorded = <<>>

UpdateGraphReturns(r) ==
  /\ graph' = r.graph
  /\ ret' = [raised |-> r.raised, value |-> None]

\* a call of Neo4jGraphPopulator.update_graph
UpdateGraph ==
  /\ pc = "idle"
  /\ UpdateGraphReturns(update_graph(graph, corpus))
  /\ pc' = "updated"
  /\ UNCHANGED <<file, dir, eh, dir_i, rule_files, recorded, corpus>>

NextUpdate == UpdateGraph

SpecUpdate == InitUpdate /\ [][NextUpdate]_vars

\* ------------------------------------------------------------------ queries

\* the engine in front of a store
InitEngine ==
  /\ graph \in Stores
  /\ corpus = <<>>
  /\ file = NoFile
  /\ dir = <<>>
  /\ eh = EmptyHandler
  /\ pc = "idle"
  /\ ret = NoReturn
  /\ dir_i = 0
  /\ rule_files = <<>>
  /\ recorded = <<>>

\* what a method of the engine returned
Answer(method, args, result) ==
  [raised |-> "", value |-> Some([method |-> method, args |-> args, result |-> result])]

Returns(answer) ==
  /\ ret' = answer
  /\ pc' = "answered"
  /\ UNCHANGED <<file, dir, eh, dir_i, rule_files, recorded, corpus, graph>>

\* the names and packages the engine is asked about
AskedNames == {graph.rules[i].name : i \in DOMAIN graph.rules} \cup {N_Missing}
AskedPackages == {None, Some(N_shop)}

\* find_rule_dependencies after find_rule_by_exact_name: the rule found is
\* the first row, or an error is returned
RuleDependenciesOf(name, package, rows) ==
  IF rows = {}
  THEN Returns(Answer("find_rule_dependencies", <<name, package>>, [error |-> name]))
  ELSE \E rule \in rows :
         Returns(Answer("find_rule_dependencies", <<name, package>>,
                        find_rule_dependencies(graph, rule)))

FindRuleDependencies ==
  /\ pc = "idle"
  /\ \E name \in AskedNames, package \in AskedPackages :
       RuleDependenciesOf(name, package, find_rule_by_exact_name(graph, name, package))

FindCircularDependencies ==
  /\ pc = "idle"
  /\ Returns(Answer("find_circular_dependencies", <<>>, find_circular_dependencies(graph)))

FindConflictingRules ==
  /\ pc = "idle"
  /\ \E accepted \in BOOLEAN :
       \E result \in find_conflicting_rules(graph, accepted) :
         Returns(Answer("find_conflicting_rules", <<accepted>>, result))

\* the rule_names handed to analyze_execution_order: None, or the names of
\* all the rules but one
AskedRuleNames ==
  {None} \cup {Some([k \in 1..(Len(graph.rules) - 1) |->
                       graph.rules[IF k < i THEN k ELSE k + 1].name]) :
               i \in DOMAIN graph.rules}

AnalyzeExecutionOrder ==
  /\ pc = "idle"
  /\ \E rule_names \in AskedRuleNames :
       \E result \in analyze_execution_order(graph, rule_names) :
         Returns(Answer("analyze_execution_order", <<rule_names>>, result))

FindUnusedRules ==
  /\ pc = "idle"
  /\ Returns(Answer("find_unused_rules", <<>>, find_unused_rules(graph)))

\* the thresholds find_complex_rules is asked with
AskedThresholds == {DefaultThreshold - 1, DefaultThreshold, DefaultThreshold + 1}

FindComplexRules ==
  /\ pc = "idle"
  /\ \E complexity_threshold \in AskedThresholds :
       \E result \in find_complex_rules(graph, complexity_threshold) :
         Returns(Answer("find_complex_rules", <<complexity_threshold>>, result))

NextEngine ==
  \/ FindRuleDependencies
  \/ FindCircularDependencies
  \/ FindConflictingRules
  \/ AnalyzeExecutionOrder
  \/ FindUnusedRules
  \/ FindComplexRules

SpecEngine == InitEngine /\ [][NextEngine]_vars

\* ------------------------------------------------------------------ parser claims

\* the RuleFile a successful parse_file returned
Parsed == pc = "parsed" /\ ret.raised = "" /\ ret.value # None
ParsedRules == ret.value[1].rules
NamesOf(rules) == [i \in 1..Len(rules) |-> rules[i].name]

\* the blocks of a file that are (not) well-formed, in order
RECURSIVE WellFormedNames(_)
WellFormedNames(parts) ==
  IF parts = <<>> THEN <<>>
  ELSE (IF WellFormed(Head(parts)) THEN <<BlockName(Head(parts))>> ELSE <<>>)
       \o WellFormedNames(Tail(parts))
MalformedAt(parts) == {i \in 1..Len(parts) : ~WellFormed(parts[i])}

\* the recorded diagnostics of the rule category that name the rule
RuleErrorsNaming(name) ==
  {i \in 1..Len(eh.errors) : eh.errors[i].type = "rule" /\ eh.errors[i].rule_name = Some(name)}

(* C4 (as claimed): a file with exactly one malformed rule among K          *)
(* well-formed ones parses to exactly the K well-formed rules, in order,    *)
(* and records at least one diagnostic.                                     *)
C4_Isolation ==
  (Parsed /\ Cardinality(MalformedAt(file.parts)) = 1)
    => /\ NamesOf(ParsedRules) = WellFormedNames(file.parts)
       /\ Len(eh.errors) >= 1

(* C6 (as claimed): Scenario A yields one Rule R1 with one Condition        *)
(* (c, Customer, [(age, >, 18)]) and one method_call Action with target c,  *)
(* method approve and no arguments.                                         *)
ScenarioARule(target) ==
  Rule(<<"R", "1">>, None, None,
       <<Condition(<<"c">>, <<"C", "u", "s", "t", "o", "m", "e", "r">>,
                   <<Constraint(<<"a", "g", "e">>, <<">">>, <<"1", "8">>)>>)>>,
       <<Action("method_call", target, Some(<<"a", "p", "p", "r", "o", "v", "e">>), <<>>)>>)
C6_ScenarioA_TargetStripped ==
  (Parsed /\ file.content = T_ScenarioA) => ParsedRules = <<ScenarioARule(<<"c">>)>>

(* C6 (amended): Scenario A yields one Rule R1 with one Condition           *)
(* (c, Customer, [(age, >, 18)]) and one method_call Action whose target is *)
(* the receiver as written, $c, with method approve and no arguments.       *)
C6_ScenarioA ==
  (Parsed /\ file.content = T_ScenarioA) => ParsedRules = <<ScenarioARule(<<"$", "c">>)>>

\* C6 witness: Scenario A was parsed and gave one rule with one action
C6_Witness ==
  /\ Parsed /\ file.content = T_ScenarioA
  /\ Len(ParsedRules) = 1 /\ Len(ParsedRules[1].actions) = 1

(* C7 (as claimed): every named rule block that lacks its when section,     *)
(* its then section or its end marker gives no Rule and exactly one rule    *)
(* diagnostic of kind MalformedRuleError that carries the rule's name.      *)
C7_MalformedRule ==
  Parsed =>
    \A i \in MalformedAt(file.parts) :
      LET name == BlockName(file.parts[i])
          blocks == {j \in 1..Len(file.parts) : file.parts[j] = file.parts[i]}
      IN /\ \A j \in 1..Len(ParsedRules) : ParsedRules[j].name # name
         /\ Cardinality(RuleErrorsNaming(name)) = Cardinality(blocks)
         /\ \A e \in RuleErrorsNaming(name) :
              eh.errors[e].exception_type = "MalformedRuleError"

\* ------------------------------------------------------------------ directory claims

(* C5 (as claimed): within one parse_directory call the recorded            *)
(* diagnostics never shrink, so every diagnostic recorded while parsing     *)
(* one of the files is in the error summary when the call returns.          *)
C5_DiagnosticsKept ==
  pc = "dir_done" =>
    \A k \in 1..Len(recorded) :
      \E i \in 1..Len(get_error_summary(eh).errors) :
        get_error_summary(eh).errors[i] = recorded[k]

\* ------------------------------------------------------------------ builder claims

Populated == pc = "populated"

\* the key of the Rule node of an entry of AllRules
EntryKey(it) == <<it.rule.name, it.file.package>>

(* C8 (as claimed): after populate_graph on a corpus, every rule A whose    *)
(* extends is the name of a rule B of the corpus has an EXTENDS edge A->B,  *)
(* whatever the order of the rules in their files and of the files.         *)
C8_ExtendsEdges ==
  Populated =>
    \A i, j \in DOMAIN AllRules(corpus) :
      AllRules(corpus)[i].rule.extends = Some(AllRules(corpus)[j].rule.name)
        => <<EntryKey(AllRules(corpus)[i]), EntryKey(AllRules(corpus)[j])>> \in graph.extends

(* C10 (as claimed): after populate_graph there is a references edge to the *)
(* fact type for every condition whose type names a known fact type and     *)
(* for every action whose target names a known fact type, and an edge to    *)
(* the global for every action whose target names a known global.           *)
C10_ReferencesEdges ==
  Populated =>
    /\ \A c \in graph.conditions, cl \in graph.classes :
         cl.name = c.type => <<c.id, cl.full_name>> \in graph.references
    /\ \A a \in graph.actions, cl \in graph.classes :
         cl.name = a.target => <<a.id, cl.full_name>> \in graph.references
    /\ \A a \in graph.actions, gl \in graph.globals :
         gl.name = a.target => <<a.id, NodeKey(gl)>> \in graph.modifies

\* ------------------------------------------------------------------ engine claims

IsAnswer(method) == pc = "answered" /\ ret.value # None /\ ret.value[1].method = method
Result == ret.value[1].result

\* the constraints of the conditions of a rule on a fact type
TypeConstraints(g, r, fact_type) ==
  UNION {ConditionConstraints(g, c) :
         c \in {c \in RuleConditions(g, r) : c.type = fact_type}}

\* rules i < j of the store share fact_type and have, on it, a pair of
\* constraints with the same field, a different operator and the same value
Contradictory(g, i, j, fact_type) ==
  /\ i < j
  /\ \E con1 \in TypeConstraints(g, NodeKey(g.rules[i]), fact_type),
        con2 \in TypeConstraints(g, NodeKey(g.rules[j]), fact_type) :
       Contradicts(ConstraintMap(con1), ConstraintMap(con2))

(* C1 (as claimed): find_conflicting_rules labels every pair of rules that  *)
(* shares a fact type with a contradictory pair of constraints (Scenario D: *)
(* status == "NEW" against status != "NEW", saliences 5 apart)              *)
(* contradictory_constraints, whatever else the pair has in common.         *)
C1_ContradictoryFirst ==
  IsAnswer("find_conflicting_rules") =>
    \A i, j \in DOMAIN graph.rules, fact_type \in {c.type : c \in graph.conditions} :
      Contradictory(graph, i, j, fact_type) =>
        \E k \in DOMAIN Result :
          /\ Result[k].rule1 = RuleInfo(graph.rules[i])
          /\ Result[k].rule2 = RuleInfo(graph.rules[j])
          /\ Result[k].fact_type = fact_type
          /\ Result[k].conflict_type = "contradictory_constraints"

RuleRef(r) == [name |-> r[1], package |-> r[2]]

(* C2 (as claimed): whenever two distinct rules depend on each other, be it *)
(* through one and the same fact type, find_circular_dependencies returns a *)
(* report that holds both.                                                  *)
C2_CycleReported ==
  IsAnswer("find_circular_dependencies") =>
    \A a, b \in RuleKeys(graph) :
      (a # b /\ b \in Dependencies(graph, a) /\ a \in Dependencies(graph, b)) =>
        \E report \in Result :
          {report.from_rule, report.to_rule} = {RuleRef(a), RuleRef(b)}

(* C9 (as claimed): the depends_on list of find_rule_dependencies(A) is     *)
(* exactly the rules B other than A with an action that references a fact   *)
(* type that a condition of A references.                                   *)
C9_DependsOnExact ==
  (IsAnswer("find_rule_dependencies") /\ "depends_on" \in DOMAIN Result) =>
    {<<row.name, row.package>> : row \in Result.depends_on}
      = Dependencies(graph, <<Result.rule.name, Result.rule.package>>)

\* the rules of the walk, those before its i-th, and those of them marked ready
Analysed(res) == {[name |-> res[j].name, package |-> res[j].package] : j \in DOMAIN res}
Earlier(res, i) == {[name |-> res[j].name, package |-> res[j].package] : j \in 1..(i - 1)}
EarlierReady(res, i) ==
  {[name |-> res[j].name, package |-> res[j].package] :
     j \in {j \in 1..(i - 1) : res[j].execution_status = "ready"}}

\* the i-th rule of the walk is marked as its dependencies in the analysed
\* set and the set met of the rules that count as done require
MarkedBy(res, i, met) ==
  IF (res[i].depends_on \cap Analysed(res)) \subseteq met
  THEN res[i].execution_status = "ready" /\ res[i].missing_dependencies = {}
  ELSE /\ res[i].execution_status = "waiting_for_dependencies"
       /\ res[i].missing_dependencies = (res[i].depends_on \cap Analysed(res)) \ met

(* C3 (as claimed): in the second pass of analyze_execution_order a rule is *)
(* ready iff every dependency of it in the analysed set appears earlier in  *)
(* the walk, and is waiting_for_dependencies otherwise, with exactly the    *)
(* dependencies that do not appear earlier as missing.                      *)
C3_ReadyIffEarlier ==
  IsAnswer("analyze_execution_order") =>
    \A i \in DOMAIN Result : MarkedBy(Result, i, Earlier(Result, i))

(* C3 (amended): a rule is ready iff every dependency of it in the analysed *)
(* set appears earlier in the walk and was itself marked ready; otherwise   *)
(* it is waiting_for_dependencies, with exactly its other dependencies in   *)
(* the analysed set as missing.                                             *)
C3_ReadyIffEarlierReady ==
  IsAnswer("analyze_execution_order") =>
    \A i \in DOMAIN Result : MarkedBy(Result, i, EarlierReady(Result, i))

(* C3 witness: a walk with a rule that is ready, and a later rule that      *)
(* waits though all its dependencies appear earlier in the walk.            *)
C3_Witness ==
  /\ IsAnswer("analyze_execution_order")
  /\ \E i \in DOMAIN Result : Result[i].execution_status = "ready"
  /\ \E i \in DOMAIN Result :
       /\ Result[i].execution_status = "waiting_for_dependencies"
       /\ (Result[i].depends_on \cap Analysed(Result)) \subseteq Earlier(Result, i)

\* the rules named by the rows of a result
RowKeys(rows) == {<<row.name, row.package>> : row \in rows}

\* r is the target of a depends_on edge: an action of r references a fact
\* type that a condition of another rule references
DependedOn(g, r) == \E r2 \in RuleKeys(g) \ {r} : r \in Dependencies(g, r2)

(* C11 (as claimed): find_unused_rules returns no rule that another rule    *)
(* extends and no rule that is the target of a depends_on edge.             *)
C11_UnusedNotUsed ==
  IsAnswer("find_unused_rules") =>
    \A r \in RowKeys(Result) :
      /\ ~\E r2 \in RuleKeys(graph) : <<r2, r>> \in graph.extends
      /\ ~DependedOn(graph, r)

(* C12 (as claimed): every rule without an extender, without an incoming    *)
(* depends_on edge and with a dependency of its own is in the result of     *)
(* find_unused_rules, whatever its other conditions are.                    *)
C12_UnusedListed ==
  IsAnswer("find_unused_rules") =>
    \A r \in RuleKeys(graph) :
      (/\ ~\E r2 \in RuleKeys(graph) : <<r2, r>> \in graph.extends
       /\ ~DependedOn(graph, r)
       /\ Dependencies(graph, r) # {}) => r \in RowKeys(Result)

(* C13 (as claimed): find_unused_rules returns no dependency-free entry     *)
(* point, that is no rule that depends on no other rule.                    *)
C13_NoEntryPoint ==
  IsAnswer("find_unused_rules") =>
    \A r \in RowKeys(Result) : Dependencies(graph, r) # {}

\* the score of a rule: its conditions, the constraints of all of them, its
\* actions and the distinct fact types its conditions and actions reference
Score(g, r) ==
  Cardinality({c \in g.conditions : <<r, c.id>> \in g.has_condition})
  + Cardinality({con \in g.constraints :
                   \E c \in g.conditions :
                     <<r, c.id>> \in g.has_condition /\ <<c.id, con.id>> \in g.has_constraint})
  + Cardinality({a \in g.actions : <<r, a.id>> \in g.has_action})
  + Cardinality({cl \in g.classes :
                   \E n \in g.conditions \cup g.actions :
                     /\ <<r, n.id>> \in g.has_condition \cup g.has_action
                     /\ <<n.id, cl.full_name>> \in g.references})

(* C14: find_complex_rules(t) returns exactly the rules whose score is at   *)
(* least t, each once and with its score, in descending order of score.     *)
C14_ComplexRules ==
  IsAnswer("find_complex_rules") =>
    /\ RowKeys({Result[k] : k \in DOMAIN Result})
         = {r \in RuleKeys(graph) : Score(graph, r) >= ret.value[1].args[1]}
    /\ \A k \in DOMAIN Result :
         Result[k].total_complexity = Score(graph, <<Result[k].name, Result[k].package>>)
    /\ \A k, h \in DOMAIN Result :
         /\ k < h => Result[k].total_complexity >= Result[h].total_complexity
         /\ (Result[k].name = Result[h].name /\ Result[k].package = Result[h].package) => k = h

(* C14 witness: a call that lists two rules of different scores and leaves  *)
(* a rule of the store out.                                                 *)
C14_Witness ==
  /\ IsAnswer("find_complex_rules")
  /\ \E k, h \in DOMAIN Result : Result[k].total_complexity > Result[h].total_complexity
  /\ \E r \in RuleKeys(graph) : r \notin RowKeys({Result[k] : k \in DOMAIN Result})

(* C15: in one result of find_conflicting_rules all the rows of one         *)
(* unordered pair of rules carry the same conflict_type, also when the two  *)
(* rules share several fact types and so have several rows.                 *)
C15_OneLabel ==
  IsAnswer("find_conflicting_rules") =>
    \A k, h \in DOMAIN Result :
      {Result[k].rule1, Result[k].rule2} = {Result[h].rule1, Result[h].rule2}
        => Result[k].conflict_type = Result[h].conflict_type

(* C15 witness: a result with two rows for one pair of rules, one per fact  *)
(* type the two rules share.                                                *)
C15_Witness ==
  /\ IsAnswer("find_conflicting_rules")
  /\ \E k, h \in DOMAIN Result :
       /\ Result[k].rule1 = Result[h].rule1
       /\ Result[k].rule2 = Result[h].rule2
       /\ Result[k].fact_type # Result[h].fact_type

\* the operators a Constraint may carry
Operators == {<<"=">>, S_eqeq, S_neq, <<"<">>, S_le, <<">">>, S_ge, S_matches}

(* C16 (as claimed): every Constraint of a parsed rule has an operator that *)
(* is one of =, ==, !=, <, <=, >, >=, matches.                              *)
C16_KnownOperators ==
  Parsed =>
    \A i \in DOMAIN ParsedRules :
      \A j \in DOMAIN ParsedRules[i].conditions :
        \A k \in DOMAIN ParsedRules[i].conditions[j].constraints :
          ParsedRules[i].conditions[j].constraints[k].operator \in Operators

(* C17 (as claimed): the rule parsed from a source with one condition       *)
(* pattern and M action statements has at most one condition and at most M  *)
(* actions.                                                                 *)
C17_NeverMore ==
  Parsed =>
    \A i \in DOMAIN ParsedRules :
      /\ Len(ParsedRules[i].conditions) <= 1
      /\ Len(ParsedRules[i].actions) <= StatementCount(file.parts[2])

\* the paths of a sequence of files or of RuleFiles
PathsOf(files) == [i \in DOMAIN files |-> files[i].path]

(* C18 (as claimed): parse_directory(dir, file_pattern=P) with the default  *)
(* validate_files returns one RuleFile for every file of the directory      *)
(* whose name matches P, for "*.drl", "*.rules" and "*.[dr]*" alike.        *)
C18_EveryMatchingFile ==
  (pc = "answered" /\ ret.value # None /\ ret.value[1].method = "parse_directory") =>
    PathsOf(ret.value[1].result) = PathsOf(matching_files(dir, ret.value[1].args[1]))

\* what a call of parse_file on a file alone gives a caller that drops the
\* exceptions: the RuleFile, or nothing
RuleFileOrNothing(r) == IF r.raised = "" THEN r.rule_file ELSE <<>>

RECURSIVE OtherRuleFiles(_)
OtherRuleFiles(d) ==
  IF d = <<>> THEN <<>>
  ELSE RuleFileOrNothing(parse_file(Head(d), EmptyHandler)) \o OtherRuleFiles(Tail(d))

(* C19: whichever files of the directory parse_file raises for,             *)
(* parse_directory raises nothing and returns, in the order of the          *)
(* directory, the RuleFile of every other file.                             *)
C19_DirectoryIsolation ==
  pc = "dir_done" =>
    /\ ret.raised = ""
    /\ ret.value = Some(OtherRuleFiles(dir))
    /\ PathsOf(ret.value[1]) = PathsOf(Keep(dir, {f \in Elements(dir) : f.readable}))

(* C19 witness: parse_directory has returned from a directory with a file   *)
(* that parse_file raised for and a file parsed after it.                   *)
C19_Witness ==
  /\ pc = "dir_done"
  /\ ret.value # None
  /\ \E i, j \in DOMAIN dir :
       /\ i < j
       /\ ~dir[i].readable
       /\ \E k \in DOMAIN ret.value[1] : ret.value[1][k].path = dir[j].path

(* C20: parse_file on an existing, readable file raises nothing, whatever   *)
(* the text holds: it returns a RuleFile of that path whose rules are rules *)
(* of the text's blocks, and what it could not parse is in the diagnostics. *)
C20_NeverRaises ==
  (pc = "parsed" /\ file.exists /\ file.readable) =>
    /\ ret.raised = ""
    /\ ret.value # None
    /\ ret.value[1].path = file.path
    /\ Len(ret.value[1].rules) <= Len(file.parts)
    /\ \A i \in DOMAIN ret.value[1].rules :
         \E j \in DOMAIN file.parts : ret.value[1].rules[i].name = BlockName(file.parts[j])
    /\ (~file.has_package \/ Len(ret.value[1].rules) < Len(file.parts)) => eh.errors # <<>>

(* C20 witness: a text without a package declaration and with no block     *)
(* that parses was parsed: no rule, diagnostics only, nothing raised.       *)
C20_Witness ==
  /\ pc = "parsed" /\ file.exists /\ file.readable
  /\ ~file.has_package
  /\ \A j \in DOMAIN file.parts : ~WellFormed(file.parts[j])
  /\ ret.raised = "" /\ ret.value # None
  /\ ret.value[1].rules = <<>>
  /\ Len(eh.errors) >= 2

(* C21: a second parse_file on the same unchanged file with the same parser *)
(* returns a RuleFile equal to the first one and leaves an error summary    *)
(* equal to the one the first call left: the diagnostics of the first call  *)
(* are not carried into the second.                                         *)
C21_Idempotent ==
  pc = "reparsed" =>
    /\ ret.raised = ""
    /\ ret.value = Some(rule_files[1])
    /\ recorded = eh.errors \o eh.errors
    /\ get_error_summary(eh) = get_error_summary(parse_file(file, EmptyHandler).eh)

(* C21 witness: a file whose parse records diagnostics was parsed twice.    *)
C21_Witness ==
  /\ pc = "reparsed"
  /\ eh.errors # <<>>
  /\ ret.value # None /\ ret.value[1].rules # <<>>

(* C22 (as claimed): a rule whose salience keyword is followed by something *)
(* that is no integer is parsed with its salience unset, and a diagnostic   *)
(* is recorded for it.                                                      *)
C22_SalienceDiagnostic ==
  (Parsed /\ file.parts[1] = "badsalience") =>
    /\ Len(ParsedRules) = 1
    /\ ParsedRules[1].salience = None
    /\ eh.errors # <<>>

\* the kinds of the statement lines of the file's rule
LinesOf(f) == Tail(f.parts)

(* C25 (as claimed): the block extracted for a rule runs from its header    *)
(* line to its end line: a statement line that merely begins with the       *)
(* letters end, such as endDate = x;, does not close it.                    *)
C25_EndClosesBlock ==
  Parsed => _extract_rule_blocks(file.content) = <<LinesRuleText(file.parts[1], LinesOf(file))>>

(* C28 (as claimed): the actions of every rule the parser accepts are those *)
(* of the whole text between its then keyword and its end line, also when   *)
(* the letters end occur in its header or in a statement.                   *)
C28_WholeThenText ==
  Parsed =>
    \A i \in DOMAIN ParsedRules :
      ParsedRules[i].actions = _parse_actions(<<NL>> \o ThenLines(LinesOf(file)) \o <<NL>>)

(* C29 (as claimed): a then-section of M statements, each on its own line   *)
(* and closed by a semicolon, gives exactly M actions, in source order.     *)
C29_OneActionPerLine ==
  Parsed =>
    \A i \in DOMAIN ParsedRules :
      /\ Len(ParsedRules[i].actions) = Len(LinesOf(file))
      /\ \A k \in DOMAIN ParsedRules[i].actions :
           <<ParsedRules[i].actions[k]>> = _parse_actions(LineText(LinesOf(file)[k]))

(* C23 (as claimed): after any sequence of handle_error and reset_counts
   calls the summary's total is the number of handle_error calls since the
   last reset_counts and the length of the errors list, the list holds those
   diagnostics in call order, and right after reset_counts the total is 0 and
   the list is empty. *)
C23_CollectorConsistent ==
  /\ get_error_summary(eh).total = Len(recorded)
  /\ get_error_summary(eh).total = Len(get_error_summary(eh).errors)
  /\ get_error_summary(eh).errors = recorded
  /\ pc = "reset" =>
       /\ get_error_summary(eh).total = 0
       /\ get_error_summary(eh).errors = <<>>

(* C23 witness: a summary read earlier held more diagnostics than were
   recorded since, so a reset lies between, and two diagnostics of different
   categories, one of them unknown, were recorded after it. *)
C23_Witness ==
  /\ pc = "recording"
  /\ ret.value # None
  /\ Len(recorded) = 2
  /\ ret.value[1].total > Len(recorded)
  /\ recorded[1].type # recorded[2].type
  /\ \E i \in DOMAIN recorded : recorded[i].type \notin ErrorTypes

(* C24 (as claimed): find_conflicting_rules labels a pair
   potential_action_conflict only when the two rules have a constraint in
   common, salience_diff < 20 and no action in common. *)
C24_DisjointActions ==
  IsAnswer("find_conflicting_rules") =>
    \A k \in DOMAIN Result :
      Result[k].conflict_type = "potential_action_conflict" =>
        /\ Result[k].details.rule1_constraints \cap Result[k].details.rule2_constraints # {}
        /\ Result[k].salience_difference < 20
        /\ Result[k].details.rule1_actions \cap Result[k].details.rule2_actions = {}

\* the functions of the RuleFile parse_file returned
ParsedFunctions == ret.value[1].functions

(* C26 (as claimed): a function declaration with a missing opening or
   closing brace does not prevent any other well-formed declaration of the
   file, before or after it and whatever its indentation, from appearing in
   rule_file.functions. *)
C26_FunctionIsolation ==
  Parsed =>
    \A i \in DOMAIN file.parts :
      file.parts[i] \in WellFormedKinds =>
        \E k \in DOMAIN ParsedFunctions : ParsedFunctions[k].name = FunctionName(i)

(* C30 (as claimed): after parse_file the number of Function values never
   exceeds the number of function declarations of the text. *)
C30_OneFunctionPerDeclaration ==
  Parsed => Len(ParsedFunctions) <= Len(file.parts)

\* what the store holds for a path: the rules the file contains with their
\* conditions, constraints and actions
StoredRules(g, path) ==
  {[rule |-> g.rules[i],
    conditions |-> {[condition |-> c, constraints |-> ConditionConstraints(g, c)] :
                      c \in RuleConditions(g, NodeKey(g.rules[i]))},
    actions |-> RuleActions(g, NodeKey(g.rules[i]))] :
     i \in {i \in DOMAIN g.rules : <<path, NodeKey(g.rules[i])>> \in g.contains}}

(* C27 (as claimed): after update_graph with a RuleFile whose path already
   exists in the graph, the graph holds for that path exactly the rules,
   conditions, constraints and actions of the new RuleFile and none that
   belonged only to the previous version. *)
C27_ReplacedWholesale ==
  (pc = "updated" /\ rule_files[1].path = corpus[1].path) =>
    StoredRules(graph, corpus[1].path)
      = StoredRules(populate_graph(EmptyGraph, corpus), corpus[1].path)

====
